---- MODULE Spec2Model ----
(***************************************************************************)
(* Verification model of the CashFlow balance engine (package cashflow):   *)
(* discrete date distributions, balance update generation, the k-way merge *)
(* by date and the accumulation of running balance envelopes.              *)
(*                                                                         *)
(* Number representation.  A date is its number of days since date.min     *)
(* (0001-01-01, a Monday); date_min..date_max are all the dates.           *)
(* Probabilities are exact multiples of 1/PScale, stored as the integer    *)
(* numerator 0..PScale (One stands for probability 1).  Money is exact and *)
(* stored in units of 1/PScale, so that amount * probability is the plain  *)
(* integer product; a whole amount a is stored as a * One.  Floating point *)
(* rounding is not modelled: arithmetic is exact.                          *)
(***************************************************************************)
EXTENDS Integers, Sequences, FiniteSets, TLC

\* ------------------------------------------------------------------ bounds
MaxDate == 3
PScale == 4
MaxOutcomes == 2
MaxFlows == 2
MaxUpdates == 3

\* -------------------------------------------------------- program constants
\* DEFAULT_CERTAINTY_TOLERANCE, in units of 1/PScale.
DEFAULT_CERTAINTY_TOLERANCE == 1

\* date.min and date.max (9999-12-31), the sentinels of an unbounded
\* DateRange, as day numbers.
date_min == 0
date_max == 3652058
\* The dates the arguments of a simulation are drawn from.
Dates == date_min..MaxDate
\* Probability 1.
One == PScale
\* A whole amount of money in the model's money unit.
Money(a) == a * One

\* ------------------------------------------------------------ small helpers
RECURSIVE SumSeq(_)
SumSeq(s) == IF s = <<>> THEN 0 ELSE Head(s) + SumSeq(Tail(s))


\* =====================================================================
\* probability.py
\* =====================================================================

\* effectively_certain(probability, tolerance): probability >= 1 - tolerance.
effectively_certain(probability, tolerance) == probability >= One - tolerance

\* clamp_certain(probability, tolerance): the probability, taken as exactly 1
\* when it is effectively certain.
clamp_certain(probability, tolerance) ==
    IF effectively_certain(probability, tolerance) THEN One ELSE probability

\* DiscreteOutcome.__post_init__: 0 < probability <= 1 and
\* probability <= cumulative_probability <= 1.
DiscreteOutcomeValid(o) ==
    /\ 0 < o.probability /\ o.probability <= One
    /\ o.probability <= o.cumulative_probability
    /\ o.cumulative_probability <= One

DiscreteOutcome(value, probability, cumulative_probability) ==
    [value |-> value, probability |-> probability,
     cumulative_probability |-> cumulative_probability]

\* DiscreteDistribution.__init__: the three checks of the constructor.
DiscreteDistributionValid(outcomes) ==
    /\ \A i \in 1..(Len(outcomes) - 1) : outcomes[i].value < outcomes[i + 1].value
    /\ \A i \in 1..(Len(outcomes) - 1) :
          outcomes[i].cumulative_probability + outcomes[i + 1].probability
              <= outcomes[i + 1].cumulative_probability
    /\ SumSeq([i \in 1..Len(outcomes) |-> outcomes[i].probability]) <= One

\* DiscreteDistribution.iterate: outcomes with lo <= value < hi, ascending.
iterate(outcomes, lo, hi) ==
    SelectSeq(outcomes, LAMBDA o : lo <= o.value /\ o.value < hi)

\* DiscreteDistribution.probability_in
probability_in(outcomes, lo, hi) ==
    LET possible == iterate(outcomes, lo, hi)
    IN  SumSeq([i \in 1..Len(possible) |-> possible[i].probability])

\* bisect_left(outcomes, value, key=value): number of outcomes before the
\* insertion point, found by halving [lo, hi) as the library does.
RECURSIVE bisect_left(_, _, _, _)
bisect_left(outcomes, value, lo, hi) ==
    IF lo < hi
    THEN LET mid == (lo + hi) \div 2
         IN  IF outcomes[mid + 1].value < value
             THEN bisect_left(outcomes, value, mid + 1, hi)
             ELSE bisect_left(outcomes, value, lo, mid)
    ELSE lo

RECURSIVE bisect_right(_, _, _, _)
bisect_right(outcomes, value, lo, hi) ==
    IF lo < hi
    THEN LET mid == (lo + hi) \div 2
         IN  IF value < outcomes[mid + 1].value
             THEN bisect_right(outcomes, value, lo, mid)
             ELSE bisect_right(outcomes, value, mid + 1, hi)
    ELSE lo

None == [none |-> TRUE]

\* DiscreteDistribution.lower_bound_inclusive: outcome with the lowest
\* value >= `value`, or None.
lower_bound_inclusive(outcomes, value) ==
    LET idx == bisect_left(outcomes, value, 0, Len(outcomes))
    IN  IF idx < Len(outcomes) THEN outcomes[idx + 1] ELSE None

\* DiscreteDistribution.upper_bound_inclusive: outcome with the highest
\* value <= `value`, or None.
upper_bound_inclusive(outcomes, value) ==
    LET idx == bisect_right(outcomes, value, 0, Len(outcomes))
    IN  IF idx > 0 THEN outcomes[idx] ELSE None

\* DiscreteDistribution.cumulative_probability(value): the probability that the
\* outcome is <= value, i.e. the cumulative_probability field of the highest
\* outcome <= value, 0 when there is none.
cumulative_probability(outcomes, value) ==
    LET o == upper_bound_inclusive(outcomes, value)
    IN  IF o = None THEN 0 ELSE o.cumulative_probability

\* A variant of the validation that compares the bounds with each other only.
FloatDistributionValid_BoundsOnly(d) == d.min <= d.max

\* FloatDistribution.__post_init__: min <= mean <= max.
FloatDistributionValid(d) == d.min <= d.mean /\ d.mean <= d.max

FloatDistribution(min, max, mean) == [min |-> min, max |-> max, mean |-> mean]

\* FloatDistribution.singular
singular(value) == FloatDistribution(value, value, value)

\* FloatDistribution.from_inexact(min, max, mean): builds the distribution from
\* the three numbers; with exact arithmetic there is no inexactness to absorb,
\* so it is the plain construction (validated by __post_init__).
from_inexact(min, max, mean) == FloatDistribution(min, max, mean)

\* =====================================================================
\* date_time.py
\* =====================================================================

DateRange(inclusive_lower_bound, exclusive_upper_bound) ==
    [inclusive_lower_bound |-> inclusive_lower_bound,
     exclusive_upper_bound |-> exclusive_upper_bound]

\* DateRange.__post_init__: lower <= upper.
DateRangeValid(r) == r.inclusive_lower_bound <= r.exclusive_upper_bound

\* DateRange.is_empty
is_empty(r) == r.inclusive_lower_bound = r.exclusive_upper_bound

\* DateRange.has_proper_upper_bound
has_proper_upper_bound(r) == r.exclusive_upper_bound # date_max

\* DateRange.inclusive_upper_bound: the day before the exclusive upper bound.
inclusive_upper_bound(r) == r.exclusive_upper_bound - 1

\* =====================================================================
\* schedule.py
\* =====================================================================

\* EventSchedule.iterate: a schedule is modelled by the sequence of date
\* distributions it can produce, in the order it produces them; iterate yields
\* those with a nonzero probability of occurring within date_range.
ScheduleIterate(schedule, date_range) ==
    SelectSeq(schedule, LAMBDA event :
        probability_in(event, date_range.inclusive_lower_bound,
                       date_range.exclusive_upper_bound) > 0)

\* =====================================================================
\* utility.py
\* =====================================================================

\* A variant of the merge in which, among heads of equal date, the latest
\* iterable wins.
RECURSIVE merge_by_date_LastWins(_)
merge_by_date_LastWins(iterables) ==
    LET live == {i \in DOMAIN iterables : iterables[i] # <<>>}
    IN  IF live = {} THEN <<>>
        ELSE LET i == CHOOSE i \in live : \A j \in live :
                        \/ Head(iterables[i]).date < Head(iterables[j]).date
                        \/ /\ Head(iterables[i]).date = Head(iterables[j]).date
                           /\ i >= j
             IN  <<Head(iterables[i])>>
                     \o merge_by_date_LastWins([iterables EXCEPT ![i] = Tail(@)])

\* merge_by_date: heapq.merge keyed by date.  It repeatedly yields the head
\* with the smallest date; among equal dates the earliest iterable wins.
RECURSIVE merge_by_date(_)
merge_by_date(iterables) ==
    LET live == {i \in DOMAIN iterables : iterables[i] # <<>>}
    IN  IF live = {} THEN <<>>
        ELSE LET i == CHOOSE i \in live : \A j \in live :
                        \/ Head(iterables[i]).date < Head(iterables[j]).date
                        \/ /\ Head(iterables[i]).date = Head(iterables[j]).date
                           /\ i <= j
             IN  <<Head(iterables[i])>>
                     \o merge_by_date([iterables EXCEPT ![i] = Tail(@)])

\* =====================================================================
\* cash_flow.py
\* =====================================================================

\* CashEndpoint and the endpoint kinds of frontend.py.  An endpoint is its
\* label together with its class.
CashEndpoint(label, kind) == [label |-> label, kind |-> kind]

\* ScheduledCashFlow.__post_init__: amount.min >= 0.
ScheduledCashFlowValid(f) == f.amount.min >= 0

ScheduledCashFlow(label, source, sink, amount, schedule) ==
    [label |-> label, source |-> source, sink |-> sink, amount |-> amount,
     schedule |-> schedule]

\* CashBalanceDelta: every component defaults to 0.
CashBalanceDelta(min, max, mean) == [min |-> min, max |-> max, mean |-> mean]

\* A variant of __radd__ that passes the keyword arguments crosswise: the mean
\* of the sum is taken from the max of the delta and the max from its mean.
DeltaRadd_Crossed(other, delta) ==
    from_inexact(other.min + delta.min, other.max + delta.mean,
                 other.mean + delta.max)

\* CashBalanceDelta.__radd__: FloatDistribution + CashBalanceDelta.
DeltaRadd(other, delta) ==
    from_inexact(other.min + delta.min, other.max + delta.max,
                 other.mean + delta.mean)

CashBalanceUpdate(date, endpoint, delta, cause) ==
    [date |-> date, endpoint |-> endpoint, delta |-> delta, cause |-> cause]

CashBalanceRecord(date, amount) == [date |-> date, amount |-> amount]

\* A variant of the loop body that uses the probability as it is, without
\* clamp_certain.
MeanUpdates_Unclamped(cash_flow, certainty_tolerance, occurrence) ==
    LET following_date == occurrence.value + 1
        update_amount == cash_flow.amount.mean * occurrence.probability
    IN  << CashBalanceUpdate(following_date, cash_flow.source,
                             CashBalanceDelta(0, 0, -update_amount), cash_flow.label),
           CashBalanceUpdate(following_date, cash_flow.sink,
                             CashBalanceDelta(0, 0, update_amount), cash_flow.label) >>

\* The two mean updates of one possible occurrence (the body of the loop of
\* generate_event_updates).
MeanUpdates(cash_flow, certainty_tolerance, occurrence) ==
    LET following_date == occurrence.value + 1
        update_amount == cash_flow.amount.mean
                            * clamp_certain(occurrence.probability, certainty_tolerance)
    IN  << CashBalanceUpdate(following_date, cash_flow.source,
                             CashBalanceDelta(0, 0, -update_amount), cash_flow.label),
           CashBalanceUpdate(following_date, cash_flow.sink,
                             CashBalanceDelta(0, 0, update_amount), cash_flow.label) >>

RECURSIVE MeanUpdatesLoop(_, _, _)
MeanUpdatesLoop(cash_flow, certainty_tolerance, occurrences) ==
    IF occurrences = <<>> THEN <<>>
    ELSE MeanUpdates(cash_flow, certainty_tolerance, Head(occurrences))
            \o MeanUpdatesLoop(cash_flow, certainty_tolerance, Tail(occurrences))

\* A variant that takes the earliest outcome of the occurrence, in the range
\* or not.
FirstOccurrence_Earliest(event, date_range) == event[1]

\* The date of the lower bound of an occurrence: its first outcome at or
\* after the start of the range (line 110).
FirstOccurrence(event, date_range) ==
    lower_bound_inclusive(event, date_range.inclusive_lower_bound)

\* A variant that lowers the minimum of the source without raising the
\* maximum of the sink.
LowerUpdates_SourceOnly(cash_flow, date_range, event) ==
    LET first_occurrence == FirstOccurrence(event, date_range)
    IN  << CashBalanceUpdate(first_occurrence.value, cash_flow.source,
               CashBalanceDelta(-Money(cash_flow.amount.max), 0, 0), cash_flow.label),
           CashBalanceUpdate(first_occurrence.value, cash_flow.sink,
               CashBalanceDelta(0, 0, 0), cash_flow.label) >>

\* Lines 110-113: the lower bound updates of an occurrence.
LowerUpdates(cash_flow, date_range, event) ==
    LET first_occurrence == FirstOccurrence(event, date_range)
    IN  << CashBalanceUpdate(first_occurrence.value, cash_flow.source,
               CashBalanceDelta(-Money(cash_flow.amount.max), 0, 0), cash_flow.label),
           CashBalanceUpdate(first_occurrence.value, cash_flow.sink,
               CashBalanceDelta(0, Money(cash_flow.amount.max), 0), cash_flow.label) >>

\* A variant that tests the probability inside the range instead of the
\* cumulative probability up to the last day of the range.
HasUpperBound_InRangeOnly(event, date_range, certainty_tolerance) ==
    effectively_certain(
        probability_in(event, date_range.inclusive_lower_bound,
                       date_range.exclusive_upper_bound),
        certainty_tolerance)

\* Lines 135-136: whether the occurrence is effectively certain to have
\* happened by the last day of the range.
HasUpperBound(event, date_range, certainty_tolerance) ==
    effectively_certain(
        cumulative_probability(event, inclusive_upper_bound(date_range)),
        certainty_tolerance)

\* Line 148: the amount of the upper bound update.
UpperUpdateAmount(amount, probability_in_range, certainty_tolerance) ==
    amount.min * clamp_certain(probability_in_range, certainty_tolerance)

\* Lines 133-150: the upper bound updates of an occurrence, if any.
UpperUpdates(cash_flow, date_range, certainty_tolerance, event) ==
    LET probability_in_range ==
            probability_in(event, date_range.inclusive_lower_bound,
                           date_range.exclusive_upper_bound)
        last_occurrence == upper_bound_inclusive(event, inclusive_upper_bound(date_range))
        following_date == last_occurrence.value + 1
        update_amount == UpperUpdateAmount(cash_flow.amount, probability_in_range,
                                           certainty_tolerance)
    IN  IF HasUpperBound(event, date_range, certainty_tolerance)
        THEN << CashBalanceUpdate(following_date, cash_flow.source,
                    CashBalanceDelta(0, -update_amount, 0), cash_flow.label),
                CashBalanceUpdate(following_date, cash_flow.sink,
                    CashBalanceDelta(update_amount, 0, 0), cash_flow.label) >>
        ELSE <<>>

\* A variant that keeps the updates of Account endpoints only, as
\* generate_account_balance_events of core.py does.
generate_event_updates_AccountsOnly(cash_flow, date_range, certainty_tolerance, event) ==
    SelectSeq(
        LowerUpdates(cash_flow, date_range, event)
            \o MeanUpdatesLoop(cash_flow, certainty_tolerance,
                   iterate(event, date_range.inclusive_lower_bound,
                           date_range.exclusive_upper_bound))
            \o UpperUpdates(cash_flow, date_range, certainty_tolerance, event),
        LAMBDA u : u.endpoint.kind = "Account")

\* generate_event_updates: the updates of one occurrence `event`, in the order
\* the generator yields them.
generate_event_updates(cash_flow, date_range, certainty_tolerance, event) ==
    LowerUpdates(cash_flow, date_range, event)
        \o MeanUpdatesLoop(cash_flow, certainty_tolerance,
               iterate(event, date_range.inclusive_lower_bound,
                       date_range.exclusive_upper_bound))
        \o UpperUpdates(cash_flow, date_range, certainty_tolerance, event)

\* The per-occurrence update streams of a flow (event_update_iterators).
EventUpdateIterators(cash_flow, date_range, certainty_tolerance) ==
    LET events == ScheduleIterate(cash_flow.schedule, date_range)
    IN  [k \in 1..Len(events) |->
            generate_event_updates(cash_flow, date_range, certainty_tolerance, events[k])]

\* itertools.chain: the iterables one after the other.
RECURSIVE Chain(_)
Chain(iterables) ==
    IF iterables = <<>> THEN <<>> ELSE Head(iterables) \o Chain(Tail(iterables))

\* A variant that chains the per-occurrence streams instead of merging them.
generate_balance_updates_Chained(cash_flow, date_range, certainty_tolerance) ==
    Chain(EventUpdateIterators(cash_flow, date_range, certainty_tolerance))

\* generate_balance_updates: the merge of the flow's per-occurrence streams.
generate_balance_updates(cash_flow, date_range, certainty_tolerance) ==
    merge_by_date(EventUpdateIterators(cash_flow, date_range, certainty_tolerance))

\* =====================================================================
\* probability.py: construction of discrete distributions
\* =====================================================================

\* _CUMULATIVE_PROBABILITY_CLAMP, in units of 1/PScale: a drift of one unit
\* is the only one below it.
CUMULATIVE_PROBABILITY_CLAMP == 2

\* What a call gives: the value it returns, or the exception it raises.
Returned(value) == [raised |-> "none", value |-> value]
Raises(exception) == [raised |-> exception, value |-> <<>>]

\* sorted(values)
RECURSIVE sorted(_)
sorted(values) ==
    IF values = {} THEN <<>>
    ELSE LET least == CHOOSE x \in values : \A y \in values : x <= y
         IN  <<least>> \o sorted(values \ {least})

\* A constructor that checks the order of the values only.
DiscreteDistribution_Unchecked(outcomes) ==
    IF ~ \A i \in 1..(Len(outcomes) - 1) : outcomes[i].value < outcomes[i + 1].value
    THEN Raises("ValueError: outcomes must have strictly increasing values")
    ELSE Returned(outcomes)

\* DiscreteDistribution(outcomes): the constructor with its three checks.
DiscreteDistribution(outcomes) ==
    IF ~ \A i \in 1..(Len(outcomes) - 1) : outcomes[i].value < outcomes[i + 1].value
    THEN Raises("ValueError: outcomes must have strictly increasing values")
    ELSE IF ~ \A i \in 1..(Len(outcomes) - 1) :
                 outcomes[i].cumulative_probability + outcomes[i + 1].probability
                     <= outcomes[i + 1].cumulative_probability
    THEN Raises("ValueError: Invalid cumulative probabilities")
    ELSE IF SumSeq([i \in 1..Len(outcomes) |-> outcomes[i].probability]) > One
    THEN Raises("ValueError: Sum of probabilities of all outcomes must be in <= 1")
    ELSE Returned(outcomes)

\* DiscreteOutcome.__post_init__ as the exception it raises, "none" if none.
DiscreteOutcomeError(o) ==
    IF ~(0 < o.probability /\ o.probability <= One)
    THEN "ValueError: probability must be in the range (0, 1]"
    ELSE IF ~(o.probability <= o.cumulative_probability
              /\ o.cumulative_probability <= One)
    THEN "ValueError: cumulative_probability must be in the range [probability, 1]"
    ELSE "none"

\* The final correction of _from_probabilities: a last cumulative probability
\* slightly below 1 is raised to 1, and the last probability with it.
ClampCumulativeUp(outcomes, clamp_cumulative_up) ==
    IF clamp_cumulative_up # 0 /\ outcomes # <<>>
    THEN LET last == outcomes[Len(outcomes)]
             diff == One - last.cumulative_probability
         IN  IF 0 < diff /\ diff < clamp_cumulative_up
             THEN [outcomes EXCEPT ![Len(outcomes)] =
                       DiscreteOutcome(last.value, last.probability + diff, One)]
             ELSE outcomes
    ELSE outcomes

\* The loop of _from_probabilities over the sorted values.
RECURSIVE FromProbabilitiesLoop(_, _, _, _, _, _)
FromProbabilitiesLoop(value_probabilities, sorted_values, outcomes, cumulative, clamp_cumulative_down, clamp_cumulative_up) ==
    IF sorted_values = <<>>
    THEN DiscreteDistribution(ClampCumulativeUp(outcomes, clamp_cumulative_up))
    ELSE LET value == Head(sorted_values)
             given == value_probabilities[value]
             sum == cumulative + given
             exceeds == clamp_cumulative_down # 0 /\ sum > One
             diff == sum - One
             corrected == cumulative < One /\ diff < clamp_cumulative_down
             new_cumulative_probability == IF exceeds /\ corrected THEN One ELSE sum
             probability == IF exceeds /\ corrected /\ outcomes # <<>>
                            THEN given - diff ELSE given
             outcome == DiscreteOutcome(value, probability, new_cumulative_probability)
         IN  IF given <= 0
             THEN Raises("ValueError: Probabilities must be > 0")
             ELSE IF exceeds /\ ~corrected
             THEN Raises("ValueError: Sum of probabilities must not exceed 1")
             ELSE IF DiscreteOutcomeError(outcome) # "none"
             THEN Raises(DiscreteOutcomeError(outcome))
             ELSE FromProbabilitiesLoop(value_probabilities, Tail(sorted_values),
                                        Append(outcomes, outcome),
                                        new_cumulative_probability,
                                        clamp_cumulative_down, clamp_cumulative_up)

\* A variant that always applies the default clamps.
FromProbabilities_Clamped(value_probabilities, clamp_cumulative_down, clamp_cumulative_up) ==
    FromProbabilitiesLoop(value_probabilities, sorted(DOMAIN value_probabilities),
                          <<>>, 0, CUMULATIVE_PROBABILITY_CLAMP,
                          CUMULATIVE_PROBABILITY_CLAMP)

\* DiscreteDistribution._from_probabilities.  value_probabilities is a
\* function from the values to their probabilities.
FromProbabilities(value_probabilities, clamp_cumulative_down, clamp_cumulative_up) ==
    FromProbabilitiesLoop(value_probabilities, sorted(DOMAIN value_probabilities),
                          <<>>, 0, clamp_cumulative_down, clamp_cumulative_up)

\* DiscreteDistribution.from_probabilities
from_probabilities(value_probabilities) ==
    FromProbabilities(value_probabilities, CUMULATIVE_PROBABILITY_CLAMP,
                      CUMULATIVE_PROBABILITY_CLAMP)

\* sum(value_weights.values())
RECURSIVE total_weight(_)
total_weight(value_weights) ==
    IF DOMAIN value_weights = {} THEN 0
    ELSE LET v == CHOOSE v \in DOMAIN value_weights : TRUE
         IN  value_weights[v]
                 + total_weight([w \in DOMAIN value_weights \ {v} |-> value_weights[w]])

\* Whether weight / total is a multiple of 1/PScale, so that the model
\* represents the quotient exactly.
ExactWeights(value_weights) ==
    LET total == total_weight(value_weights)
        magnitude == IF total < 0 THEN -total ELSE total
    IN  total # 0 =>
            \A v \in DOMAIN value_weights : (value_weights[v] * One) % magnitude = 0

\* weight / total for a total that divides exactly (either sign).
Quotient(weight, total) ==
    IF total > 0
    THEN (IF weight >= 0 THEN (weight * One) \div total
                         ELSE -((-weight * One) \div total))
    ELSE (IF weight >= 0 THEN -((weight * One) \div (-total))
                         ELSE (-weight * One) \div (-total))

\* DiscreteDistribution.from_weights: the weights normalised by their sum.
from_weights(value_weights) ==
    LET total == total_weight(value_weights)
    IN  IF DOMAIN value_weights # {} /\ total = 0
        THEN Raises("ZeroDivisionError")
        ELSE from_probabilities([v \in DOMAIN value_weights |->
                                     Quotient(value_weights[v], total)])

\* DiscreteDistribution.singular(value) = uniformly_of(value)
\*   = uniformly_in((value,)) = from_weights({value: 1}).
DiscreteDistribution_singular(value) == from_weights([v \in {value} |-> 1]).value

\* DiscreteDistribution.certain_in: the interval spans all the outcomes and
\* the last cumulative probability is effectively 1.
certain_in(outcomes, inclusive_lower_bound, exclusive_upper_bound, tolerance) ==
    /\ Len(outcomes) > 0
    /\ outcomes[1].value >= inclusive_lower_bound
    /\ outcomes[Len(outcomes)].value < exclusive_upper_bound
    /\ effectively_certain(outcomes[Len(outcomes)].cumulative_probability, tolerance)

\* DiscreteDistribution.has_possible_outcomes
has_possible_outcomes(outcomes) == Len(outcomes) > 0

\* A variant that rebuilds the cumulative probabilities of the outcomes kept.
filtered_outcomes_Rebuilt(outcomes, kept) ==
    LET remaining == SelectSeq(outcomes, LAMBDA o : o.value \in kept)
    IN  [i \in 1..Len(remaining) |->
            DiscreteOutcome(remaining[i].value, remaining[i].probability,
                            SumSeq([k \in 1..i |-> remaining[k].probability]))]

\* The outcomes whose value is in `kept`, in order (the generator
\* filtered_outcomes of subset, for func = membership in `kept`).
filtered_outcomes(outcomes, kept) ==
    LET func(o) == o.value \in kept
    IN  SelectSeq(outcomes, func)

\* The mapping from the values of the outcomes to their probabilities.
ValueProbabilities(outcomes) ==
    [v \in {outcomes[i].value : i \in DOMAIN outcomes} |->
        LET i == CHOOSE i \in DOMAIN outcomes : outcomes[i].value = v
        IN  outcomes[i].probability]

\* DiscreteDistribution.subset(func, adjust_cumulative), func being
\* membership in `kept`.
subset(outcomes, kept, adjust_cumulative) ==
    IF adjust_cumulative
    THEN FromProbabilities(ValueProbabilities(filtered_outcomes(outcomes, kept)), 0, 0)
    ELSE DiscreteDistribution(filtered_outcomes(outcomes, kept))

\* DiscreteDistribution.subset(func) as schedule.py calls it, with the
\* predicate only: the outcomes for which func holds, each with its
\* probability and its cumulative_probability unchanged.
subset_preserving(outcomes, kept) == filtered_outcomes(outcomes, kept)

\* DiscreteDistribution.drop(func), func being membership in `dropped`: the
\* remaining outcomes keep their probability, the cumulative probabilities
\* are rebuilt from the remaining probabilities.
drop(outcomes, dropped) ==
    LET remaining == SelectSeq(outcomes, LAMBDA o : o.value \notin dropped)
    IN  FromProbabilities(ValueProbabilities(remaining), 0, 0)

\* DiscreteDistribution.map_values(func), func given as a function on the
\* values: the probabilities of values mapped to one value are summed.
map_values(outcomes, func) ==
    LET mapped == {func[outcomes[i].value] : i \in DOMAIN outcomes}
        sources(w) == {i \in DOMAIN outcomes : func[outcomes[i].value] = w}
        probabilities(w) ==
            SumSeq([k \in 1..Len(outcomes) |->
                        IF k \in sources(w) THEN outcomes[k].probability ELSE 0])
    IN  from_probabilities([w \in mapped |-> probabilities(w)])

\* =====================================================================
\* cash_flow.py: logs of cash flow events
\* =====================================================================

CashFlowLog(date, bound_type, exact_bound, amount, source, sink) ==
    [date |-> date, bound_type |-> bound_type, exact_bound |-> exact_bound,
     amount |-> amount, source |-> source, sink |-> sink]

\* CashFlowLog.__lt__: (date, bound_type) compared as tuples.
CashFlowLogLt(self, other) ==
    \/ self.date < other.date
    \/ self.date = other.date /\ self.bound_type < other.bound_type

\* A variant that yields the iterables one after the other.
RECURSIVE merge_Chained(_)
merge_Chained(iterables) ==
    IF iterables = <<>> THEN <<>>
    ELSE Head(iterables) \o merge_Chained(Tail(iterables))

\* heapq.merge(*iterables): it repeatedly yields a head that no other head
\* is less than.  Among heads that compare equal the earliest iterable
\* yields first here; nothing below depends on that order.
RECURSIVE merge(_)
merge(iterables) ==
    LET live == {i \in DOMAIN iterables : iterables[i] # <<>>}
    IN  IF live = {} THEN <<>>
        ELSE LET i == CHOOSE i \in live : \A j \in live :
                        \/ CashFlowLogLt(Head(iterables[i]), Head(iterables[j]))
                        \/ /\ ~CashFlowLogLt(Head(iterables[j]), Head(iterables[i]))
                           /\ i <= j
             IN  <<Head(iterables[i])>> \o merge([iterables EXCEPT ![i] = Tail(@)])

\* A variant that takes the upper bound for exact whenever it is the last
\* outcome of the event.
generate_event_logs_LastOutcomeOnly(event, cash_flow, date_range, certainty_tolerance) ==
    LET first_occurrence ==
            lower_bound_inclusive(event, date_range.inclusive_lower_bound)
        last_occurrence ==
            upper_bound_inclusive(event, inclusive_upper_bound(date_range))
        exact_lower_bound == first_occurrence = event[1]
        exact_upper_bound == last_occurrence = event[Len(event)]
    IN  IF first_occurrence.value = last_occurrence.value
        THEN <<CashFlowLog(first_occurrence.value, 0,
                           exact_lower_bound /\ exact_upper_bound,
                           cash_flow.amount, cash_flow.source, cash_flow.sink)>>
        ELSE <<CashFlowLog(first_occurrence.value, -1, exact_lower_bound,
                           cash_flow.amount, cash_flow.source, cash_flow.sink),
               CashFlowLog(last_occurrence.value, 1, exact_upper_bound,
                           cash_flow.amount, cash_flow.source, cash_flow.sink)>>

\* generate_event_logs(event), the inner generator of
\* generate_cash_flow_logs: one combined entry, or a lower and an upper one.
generate_event_logs(event, cash_flow, date_range, certainty_tolerance) ==
    LET first_occurrence ==
            lower_bound_inclusive(event, date_range.inclusive_lower_bound)
        last_occurrence ==
            upper_bound_inclusive(event, inclusive_upper_bound(date_range))
        exact_lower_bound == first_occurrence = event[1]
        exact_upper_bound ==
            /\ last_occurrence = event[Len(event)]
            /\ effectively_certain(
                   cumulative_probability(event, last_occurrence.value),
                   certainty_tolerance)
    IN  IF first_occurrence.value = last_occurrence.value
        THEN <<CashFlowLog(first_occurrence.value, 0,
                           exact_lower_bound /\ exact_upper_bound,
                           cash_flow.amount, cash_flow.source, cash_flow.sink)>>
        ELSE <<CashFlowLog(first_occurrence.value, -1, exact_lower_bound,
                           cash_flow.amount, cash_flow.source, cash_flow.sink),
               CashFlowLog(last_occurrence.value, 1, exact_upper_bound,
                           cash_flow.amount, cash_flow.source, cash_flow.sink)>>

\* generate_cash_flow_logs: the logs of the events of the schedule, merged.
generate_cash_flow_logs(cash_flow, date_range, certainty_tolerance) ==
    LET events == ScheduleIterate(cash_flow.schedule, date_range)
    IN  merge([k \in 1..Len(events) |->
                  generate_event_logs(events[k], cash_flow, date_range,
                                      certainty_tolerance)])

\* CashFlowAnalysis.log_cash_flows (frontend.py): the logs of all the cash
\* flows, merged, in the order they are printed.
log_cash_flows(cash_flows, date_range, certainty_tolerance) ==
    merge([k \in 1..Len(cash_flows) |->
              generate_cash_flow_logs(cash_flows[k], date_range,
                                      certainty_tolerance)])

\* =====================================================================
\* core.py: account balance events
\* =====================================================================

\* CashFlow: label, source, sink and amount.
CashFlow(label, source, sink, amount) ==
    [label |-> label, source |-> source, sink |-> sink, amount |-> amount]

\* CashFlowEvent is compared by identity (eq=False): id tells apart two events
\* of equal content.
CashFlowEvent(id, cash_flow, distribution) ==
    [id |-> id, cash_flow |-> cash_flow, distribution |-> distribution]

\* CashFlowOccurrence(**asdict(outcome), event=event): a DiscreteOutcome of a
\* date together with its event; the property date is the outcome's value.
CashFlowOccurrence(outcome, event) ==
    [value |-> outcome.value, probability |-> outcome.probability,
     cumulative_probability |-> outcome.cumulative_probability,
     event |-> event, date |-> outcome.value]

\* CashFlowEvent.iterate: the outcomes of the distribution within date_range,
\* each made an occurrence of this event.
CashFlowEventIterate(self, date_range) ==
    LET possible == iterate(self.distribution, date_range.inclusive_lower_bound,
                            date_range.exclusive_upper_bound)
    IN  [k \in 1..Len(possible) |-> CashFlowOccurrence(possible[k], self)]

\* ScheduledCashFlow.iterate_events: one event per distribution the schedule
\* produces for date_range.
iterate_events(self, date_range) ==
    LET produced == ScheduleIterate(self.schedule, date_range)
    IN  [k \in 1..Len(produced) |->
            CashFlowEvent(k, CashFlow(self.label, self.source, self.sink,
                                      self.amount), produced[k])]

\* iterate_cash_flow_occurrences: the occurrences of the events, merged by date.
iterate_cash_flow_occurrences(events, date_range) ==
    merge_by_date([k \in 1..Len(events) |->
                      CashFlowEventIterate(events[k], date_range)])

\* CashDelta: every component defaults to 0.
CashDelta(min, max, mean) == [min |-> min, max |-> max, mean |-> mean]

AccountBalanceEvent(date, account, delta) ==
    [date |-> date, account |-> account, delta |-> delta]

\* isinstance(endpoint, Account)
IsAccount(endpoint) == endpoint.kind = "Account"

\* generate_account_balance_events, the events yielded at once for an
\* occurrence whose event was not seen before: the lower bound of the date, at
\* the start of the day of occurrence.
LowerBoundEvents(occurrence) ==
    LET cash_flow == occurrence.event.cash_flow
        amount == cash_flow.amount
    IN  (IF IsAccount(cash_flow.source)
         THEN <<AccountBalanceEvent(occurrence.date, cash_flow.source,
                                    CashDelta(-(amount.max * One), 0, 0))>>
         ELSE <<>>)
        \o (IF IsAccount(cash_flow.sink)
            THEN <<AccountBalanceEvent(occurrence.date, cash_flow.sink,
                                       CashDelta(0, amount.max * One, 0))>>
            ELSE <<>>)

\* generate_account_balance_events, the events appended to the defer queue for
\* an occurrence: the mean, and the upper bound of the date when the cumulative
\* probability is effectively certain, all dated on the following day.
DeferredEvents(occurrence, certainty_tolerance) ==
    LET cash_flow == occurrence.event.cash_flow
        amount == cash_flow.amount
        following_date == occurrence.date + 1
        certain == effectively_certain(occurrence.cumulative_probability,
                                       certainty_tolerance)
    IN  (IF IsAccount(cash_flow.source)
         THEN <<AccountBalanceEvent(following_date, cash_flow.source,
                    CashDelta(0, 0, -(amount.mean * occurrence.probability)))>>
         ELSE <<>>)
        \o (IF IsAccount(cash_flow.sink)
            THEN <<AccountBalanceEvent(following_date, cash_flow.sink,
                       CashDelta(0, 0, amount.mean * occurrence.probability))>>
            ELSE <<>>)
        \o (IF certain /\ IsAccount(cash_flow.source)
            THEN <<AccountBalanceEvent(following_date, cash_flow.source,
                                       CashDelta(0, -(amount.min * One), 0))>>
            ELSE <<>>)
        \o (IF certain /\ IsAccount(cash_flow.sink)
            THEN <<AccountBalanceEvent(following_date, cash_flow.sink,
                                       CashDelta(amount.min * One, 0, 0))>>
            ELSE <<>>)

\* =====================================================================
\* probability.py: arithmetic of FloatDistribution
\* =====================================================================

\* FloatDistribution(min=, max=, mean=) with the check of __post_init__.
FloatDistributionChecked(min, max, mean) ==
    IF FloatDistributionValid(FloatDistribution(min, max, mean))
    THEN Returned(FloatDistribution(min, max, mean))
    ELSE Raises("ValueError: min <= mean <= max must be true")

\* FloatDistribution.__neg__
FloatNeg(self) == FloatDistributionChecked(-self.max, -self.min, -self.mean)

\* FloatDistribution.__add__ with a FloatDistribution
FloatAdd(self, other) ==
    FloatDistributionChecked(self.min + other.min, self.max + other.max,
                             self.mean + other.mean)

\* FloatDistribution.__add__ with a number
FloatAddScalar(self, other) ==
    FloatDistributionChecked(self.min + other, self.max + other, self.mean + other)

\* FloatDistribution.__radd__: other + self is self + other.
FloatRadd(self, other) == FloatAddScalar(self, other)

\* A multiplication that never swaps min and max.
FloatMul_NoSwap(self, other) ==
    FloatDistributionChecked(self.min * other, self.max * other, self.mean * other)

\* FloatDistribution.__mul__
FloatMul(self, other) ==
    IF other >= 0
    THEN FloatDistributionChecked(self.min * other, self.max * other,
                                  self.mean * other)
    ELSE FloatDistributionChecked(self.max * other, self.min * other,
                                  self.mean * other)

\* FloatDistribution.__rmul__: other * self is self * other.
FloatRmul(self, other) == FloatMul(self, other)

\* =====================================================================
\* date_time.py: calendar, Week, Month and DateRange operations
\* =====================================================================

\* date.weekday(): 0 is Monday.  date.min is a Monday.
weekday(d) == d % 7

IsLeapYear(year) ==
    year % 4 = 0 /\ (year % 100 # 0 \/ year % 400 = 0)

DaysInMonth(year, month) ==
    IF month = 2 THEN (IF IsLeapYear(year) THEN 29 ELSE 28)
    ELSE IF month \in {4, 6, 9, 11} THEN 30 ELSE 31

\* Days from date.min to January 1st of `year`.
DaysBeforeYear(year) ==
    LET y == year - 1
    IN  y * 365 + (y \div 4) - (y \div 100) + (y \div 400)

\* Days from January 1st of `year` to the first day of `month`.
RECURSIVE DaysBeforeMonth(_, _)
DaysBeforeMonth(year, month) ==
    IF month = 1 THEN 0
    ELSE DaysBeforeMonth(year, month - 1) + DaysInMonth(year, month - 1)

\* date(year, month, day) of a valid date, as a day number.
date(year, month, day) ==
    DaysBeforeYear(year) + DaysBeforeMonth(year, month) + day - 1

\* date.year and date.month
YearOfDate(d) ==
    CHOOSE year \in ((d \div 366) + 1)..((d \div 365) + 1) :
        DaysBeforeYear(year) <= d /\ d < DaysBeforeYear(year + 1)

MonthOfDate(d) ==
    LET year == YearOfDate(d)
    IN  CHOOSE month \in 1..12 :
            /\ date(year, month, 1) <= d
            /\ d < date(year, month, 1) + DaysInMonth(year, month)

\* Month.of(d)
MonthOf(d) == [year |-> YearOfDate(d), month |-> MonthOfDate(d)]

\* Month.has_day(day): whether date(year, month, day) is a valid date.
MonthHasDay(month, day) ==
    1 <= day /\ day <= DaysInMonth(month.year, month.month)

\* Month.day(day), for a day the month has.
MonthDay(month, day) == date(month.year, month.month, day)

\* Month.__sub__: the number of months between two months.
MonthSub(month, other) ==
    (month.year - other.year) * 12 + month.month - other.month

\* Month.__add__: Month.of(self.day(1) + relativedelta(months=months)).
MonthAdd(month, months) ==
    LET index == month.year * 12 + (month.month - 1) + months
    IN  [year |-> index \div 12, month |-> (index % 12) + 1]

\* Order of the dataclass Month(order=True): by (year, month).
MonthLe(month, other) == MonthSub(month, other) <= 0

\* Week.of(d): the week is its Monday.
WeekOf(d) == [start |-> d - weekday(d)]

\* Week.day(day): self.start + relativedelta(weekday=day).
WeekDay(week, day) == week.start + day

\* Week.__sub__: (self.start - other.start).days // 7.
WeekSub(week, other) == (week.start - other.start) \div 7

\* Week.__add__
WeekAdd(week, weeks) == WeekOf(week.start + 7 * weeks)

\* Order of the dataclass Week(order=True): by start.
WeekLe(week, other) == week.start <= other.start

\* DateRange.all()
DateRangeAll == DateRange(date_min, date_max)

\* DateRange.has_proper_lower_bound
has_proper_lower_bound(r) == r.inclusive_lower_bound # date_min

\* DateRange.__contains__
DateRangeContains(r, d) ==
    r.inclusive_lower_bound <= d /\ d < r.exclusive_upper_bound

\* DateRange.__and__: the intersection, the lower bound clamped to the upper.
DateRangeAnd(r, other) ==
    LET max_lower == IF r.inclusive_lower_bound >= other.inclusive_lower_bound
                     THEN r.inclusive_lower_bound ELSE other.inclusive_lower_bound
        upper_bound == IF r.exclusive_upper_bound <= other.exclusive_upper_bound
                       THEN r.exclusive_upper_bound ELSE other.exclusive_upper_bound
        lower_bound == IF max_lower <= upper_bound THEN max_lower ELSE upper_bound
    IN  DateRange(lower_bound, upper_bound)

\* DateRange.days, and with it len() and the truth value of a range, is
\* defined for a fully bounded range only; otherwise it raises ValueError.
FullyBounded(r) == has_proper_lower_bound(r) /\ has_proper_upper_bound(r)

days(r) == r.exclusive_upper_bound - r.inclusive_lower_bound

\* DateRange.__iter__: the dates of the range in chronological order.
DateRangeIter(r) == [k \in 1..days(r) |-> r.inclusive_lower_bound + k - 1]

\* =====================================================================
\* schedule.py
\* =====================================================================

\* An entry of `exclude`: a date or a DateRange.
ExcludeDate(d) == [type |-> "date", date |-> d, range |-> DateRange(d, d)]
ExcludeRange(r) == [type |-> "DateRange", date |-> r.inclusive_lower_bound, range |-> r]

\* _is_occurrence_excluded
is_occurrence_excluded(occurrence, excluded) ==
    \E i \in DOMAIN excluded :
        \/ excluded[i].type = "date" /\ occurrence = excluded[i].date
        \/ excluded[i].type = "DateRange" /\ DateRangeContains(excluded[i].range, occurrence)

\* The values of the outcomes that _excluded_occurrence_filter(exclude) keeps.
NotExcluded(outcomes, exclude) ==
    {outcomes[i].value : i \in {j \in DOMAIN outcomes :
                                   ~is_occurrence_excluded(outcomes[j].value, exclude)}}

\* The schedules.  `date` of Once and `day` of Weekly and Monthly are tagged
\* with their Python type.
Once(when) == [kind |-> "Once", date |-> when]
Daily(range, exclude) == [kind |-> "Daily", range |-> range, exclude |-> exclude]
Weekdays(range, exclude) == [kind |-> "Weekdays", range |-> range, exclude |-> exclude]
Weekends(range, exclude) == [kind |-> "Weekends", range |-> range, exclude |-> exclude]
Weekly(day, range, period, exclude) ==
    [kind |-> "Weekly", day |-> day, range |-> range, period |-> period,
     exclude |-> exclude]
Monthly(day, range, period, exclude) ==
    [kind |-> "Monthly", day |-> day, range |-> range, period |-> period,
     exclude |-> exclude]

ADate(d) == [type |-> "date", value |-> d, outcomes |-> <<>>, distributions |-> <<>>]
AnInt(n) == [type |-> "int", value |-> n, outcomes |-> <<>>, distributions |-> <<>>]
ADistribution(outcomes) ==
    [type |-> "DiscreteDistribution", value |-> 0, outcomes |-> outcomes,
     distributions |-> <<>>]
ASimpleSchedule(distributions) ==
    [type |-> "SimpleSchedule", value |-> 0, outcomes |-> <<>>,
     distributions |-> distributions]

\* Weekly.__post_init__ and Monthly.__post_init__ accept the schedule.
WeeklyValid(self) ==
    /\ self.day.type = "int" => (0 <= self.day.value /\ self.day.value <= 6)
    /\ self.period >= 1
    /\ self.period # 1 => has_proper_lower_bound(self.range)

MonthlyValid(self) ==
    /\ self.day.type = "int" => (1 <= self.day.value /\ self.day.value <= 31)
    /\ self.period >= 1
    /\ self.period # 1 => has_proper_lower_bound(self.range)

\* A variant of Once.iterate that returns the in-range part of a date
\* distribution.
OnceIterate_Clipped(self, date_range) ==
    IF self.date.type = "DiscreteDistribution"
    THEN (IF probability_in(self.date.outcomes, date_range.inclusive_lower_bound,
                            date_range.exclusive_upper_bound) > 0
          THEN <<iterate(self.date.outcomes, date_range.inclusive_lower_bound,
                         date_range.exclusive_upper_bound)>>
          ELSE <<>>)
    ELSE IF DateRangeContains(date_range, self.date.value)
    THEN <<DiscreteDistribution_singular(self.date.value)>>
    ELSE <<>>

\* Once.iterate
OnceIterate(self, date_range) ==
    IF /\ self.date.type = "DiscreteDistribution"
       /\ probability_in(self.date.outcomes, date_range.inclusive_lower_bound,
                         date_range.exclusive_upper_bound) > 0
    THEN <<self.date.outcomes>>
    ELSE IF self.date.type = "date" /\ DateRangeContains(date_range, self.date.value)
    THEN <<DiscreteDistribution_singular(self.date.value)>>
    ELSE <<>>

\* The generator of Daily.iterate, Weekdays.iterate and Weekends.iterate: a
\* singular distribution for every date of date_range & self.range whose
\* weekday is in `weekdays` and which is not excluded.
DayByDayIterate(self, date_range, weekdays) ==
    LET occurrences ==
            SelectSeq(DateRangeIter(DateRangeAnd(date_range, self.range)),
                      LAMBDA occurrence :
                          /\ weekday(occurrence) \in weekdays
                          /\ ~is_occurrence_excluded(occurrence, self.exclude))
    IN  [k \in 1..Len(occurrences) |-> DiscreteDistribution_singular(occurrences[k])]

\* Daily.iterate
DailyIterate(self, date_range) == DayByDayIterate(self, date_range, 0..6)

\* Weekdays.iterate: occurrence.weekday() <= FRIDAY
WeekdaysIterate(self, date_range) == DayByDayIterate(self, date_range, 0..4)

\* Weekends.iterate: occurrence.weekday() >= SATURDAY
WeekendsIterate(self, date_range) == DayByDayIterate(self, date_range, 5..6)

\* SimpleDayOfWeekSchedule.iterate
SimpleDayOfWeekScheduleIterate(distributions, week) ==
    SelectSeq(distributions, has_possible_outcomes)

\* Weekly._day_schedule: the distributions of the SimpleDayOfWeekSchedule.
WeeklyDaySchedule(self) ==
    IF self.day.type = "SimpleSchedule" THEN self.day.distributions
    ELSE IF self.day.type = "DiscreteDistribution" THEN <<self.day.outcomes>>
    ELSE <<DiscreteDistribution_singular(self.day.value)>>

\* The body of the loop over day_schedule.iterate(week) in Weekly.iterate
\* for one day distribution: the date distribution, excluded dates removed.
WeeklyDateDistribution(self, week, day_distribution) ==
    LET mapped == map_values(day_distribution,
                             [day \in 0..6 |-> WeekDay(week, day)]).value
    IN  subset_preserving(mapped, NotExcluded(mapped, self.exclude))

\* A variant that yields every date distribution of an aligned week, also
\* one without probability inside the range.
WeeklyYield_Unfiltered(self, date_range, week) ==
    LET day_distributions == SimpleDayOfWeekScheduleIterate(WeeklyDaySchedule(self), week)
    IN  [k \in 1..Len(day_distributions) |->
            WeeklyDateDistribution(self, week, day_distributions[k])]

\* The date distributions Weekly.iterate yields for one aligned week.
WeeklyYield(self, date_range, week) ==
    LET day_distributions == SimpleDayOfWeekScheduleIterate(WeeklyDaySchedule(self), week)
        date_distributions ==
            [k \in 1..Len(day_distributions) |->
                WeeklyDateDistribution(self, week, day_distributions[k])]
    IN  SelectSeq(date_distributions,
                  LAMBDA date_distribution :
                      probability_in(date_distribution,
                                     date_range.inclusive_lower_bound,
                                     date_range.exclusive_upper_bound) > 0)

\* The while loop of Weekly.iterate; date_range is the intersected range.
RECURSIVE WeeklyLoop(_, _, _, _, _)
WeeklyLoop(self, date_range, start_week, week, last_week) ==
    IF WeekLe(week, last_week)
    THEN LET period_diff == WeekSub(week, start_week) % self.period
         IN  (IF period_diff = 0 THEN WeeklyYield(self, date_range, week) ELSE <<>>)
                 \o WeeklyLoop(self, date_range, start_week,
                               WeekAdd(week, self.period - period_diff), last_week)
    ELSE <<>>

\* Weekly.iterate.  `if date_range:` takes len(date_range), which raises for a
\* range that is not fully bounded.
WeeklyIterate(self, query) ==
    LET date_range == DateRangeAnd(query, self.range)
    IN  IF ~FullyBounded(date_range)
        THEN Raises("ValueError: Range is not fully bounded")
        ELSE IF days(date_range) = 0 THEN Returned(<<>>)
        ELSE Returned(WeeklyLoop(self, date_range,
                                 WeekOf(self.range.inclusive_lower_bound),
                                 WeekOf(date_range.inclusive_lower_bound),
                                 WeekOf(inclusive_upper_bound(date_range))))

\* A variant that renormalises the days that remain in the month, so that
\* their probabilities add up to 1 again.
SimpleDayOfMonthScheduleIterate_Renormalised(distributions, month) ==
    LET valid == {day \in 1..31 : MonthHasDay(month, day)}
    IN  SelectSeq([k \in 1..Len(distributions) |->
                      from_weights(ValueProbabilities(
                          subset_preserving(distributions[k], valid))).value],
                  has_possible_outcomes)

\* SimpleDayOfMonthSchedule.iterate: the days the month does not have are
\* removed from every distribution; empty distributions are left out.
SimpleDayOfMonthScheduleIterate(distributions, month) ==
    LET valid == {day \in 1..31 : MonthHasDay(month, day)}
    IN  SelectSeq([k \in 1..Len(distributions) |->
                      subset_preserving(distributions[k], valid)],
                  has_possible_outcomes)

\* Monthly._day_schedule: the distributions of the SimpleDayOfMonthSchedule.
MonthlyDaySchedule(self) ==
    IF self.day.type = "SimpleSchedule" THEN self.day.distributions
    ELSE <<DiscreteDistribution_singular(self.day.value)>>

\* The body of the loop over day_schedule.iterate(month) in Monthly.iterate
\* for one day distribution.
MonthlyDateDistribution(self, month, day_distribution) ==
    LET mapped == map_values(day_distribution,
                             [day \in {d \in 1..31 : MonthHasDay(month, d)} |->
                                 MonthDay(month, day)]).value
    IN  subset_preserving(mapped, NotExcluded(mapped, self.exclude))

\* The date distributions Monthly.iterate yields for one aligned month.
MonthlyYield(self, date_range, month) ==
    LET day_distributions == SimpleDayOfMonthScheduleIterate(MonthlyDaySchedule(self), month)
        date_distributions ==
            [k \in 1..Len(day_distributions) |->
                MonthlyDateDistribution(self, month, day_distributions[k])]
    IN  SelectSeq(date_distributions,
                  LAMBDA date_distribution :
                      probability_in(date_distribution,
                                     date_range.inclusive_lower_bound,
                                     date_range.exclusive_upper_bound) > 0)

\* The while loop of Monthly.iterate; date_range is the intersected range.
RECURSIVE MonthlyLoop(_, _, _, _, _)
MonthlyLoop(self, date_range, start_month, month, last_month) ==
    IF MonthLe(month, last_month)
    THEN LET period_diff == MonthSub(month, start_month) % self.period
         IN  (IF period_diff = 0 THEN MonthlyYield(self, date_range, month) ELSE <<>>)
                 \o MonthlyLoop(self, date_range, start_month,
                                MonthAdd(month, self.period - period_diff), last_month)
    ELSE <<>>

\* Monthly.iterate
MonthlyIterate(self, query) ==
    LET date_range == DateRangeAnd(query, self.range)
    IN  IF ~FullyBounded(date_range)
        THEN Raises("ValueError: Range is not fully bounded")
        ELSE IF days(date_range) = 0 THEN Returned(<<>>)
        ELSE Returned(MonthlyLoop(self, date_range,
                                  MonthOf(self.range.inclusive_lower_bound),
                                  MonthOf(date_range.inclusive_lower_bound),
                                  MonthOf(inclusive_upper_bound(date_range))))

\* =====================================================================
\* State of one run of simulate_cash_balances / accumulate_endpoint_balances
\* =====================================================================
VARIABLES
    cash_flows,         \* argument: the sequence of ScheduledCashFlow
    date_range,         \* argument: the DateRange
    initial_balances,   \* argument: endpoint -> FloatDistribution (partial)
    pc,                 \* position in the code
    flow_idx,           \* next flow whose generate_balance_updates is called
    event_updates,      \* per flow: the per-occurrence update streams
    flow_updates,       \* per flow: the result of generate_balance_updates
    balance_updates,    \* the update stream given to accumulate_endpoint_balances
    idx,                \* position of the groupby iterator in balance_updates
    day,                \* <<d>> while the group of day d is open, else <<>>
    prev_day,           \* local prev_day
    endpoint_balances,  \* local endpoint_balances (entries set so far)
    endpoints_changed,  \* local endpoints_changed of the open group
    balance_records,    \* local result / balance_records
    error,              \* the exception raised, "none" when none
    args,               \* arguments of a direct call of a library function
    result,             \* what that call returned or raised, <<>> before
    generator           \* frame of a running generator: its locals and what
                        \* it has yielded so far, <<>> when there is none

vars == <<cash_flows, date_range, initial_balances, pc, flow_idx, event_updates,
          flow_updates, balance_updates, idx, day, prev_day, endpoint_balances,
          endpoints_changed, balance_records, error, args, result,
          generator>>

EmptyMap == [e \in {} |-> <<>>]

\* defaultdict(lambda: FloatDistribution.singular(0)) lookup.
BalanceOf(balances, endpoint) ==
    IF endpoint \in DOMAIN balances THEN balances[endpoint] ELSE singular(0)

\* defaultdict(list) lookup.
RecordsOf(records, endpoint) ==
    IF endpoint \in DOMAIN records THEN records[endpoint] ELSE <<>>

MapSet(m, k, v) == [x \in (DOMAIN m) \cup {k} |-> IF x = k THEN v ELSE m[x]]

\* ------------------------------------------------------------ input sets
account1 == CashEndpoint("account1", "Account")
account2 == CashEndpoint("account2", "Account")
income == CashEndpoint("salary", "IncomeSource")
expense == CashEndpoint("rent", "ExpenseSink")

\* Every DateRange the constructor accepts.
Ranges == {r \in [inclusive_lower_bound : Dates,
                  exclusive_upper_bound : Dates \cup {date_max}] :
              DateRangeValid(r)}

OutcomeDates == date_min..(MaxDate - 1)

Outcomes == {o \in [value : OutcomeDates, probability : 1..One,
                    cumulative_probability : 1..One] : DiscreteOutcomeValid(o)}

\* Every distribution the DiscreteDistribution constructor accepts with
\* 1..MaxOutcomes outcomes.
Distributions ==
    UNION {{d \in [1..n -> Outcomes] : DiscreteDistributionValid(d)} : n \in 1..MaxOutcomes}

\* Amounts in whole money units (min, max, mean).
Amounts == {FloatDistribution(1, 1, 1), FloatDistribution(0, 2, 1),
            FloatDistribution(1, 3, 2)}

\* Second occurrences of a two-occurrence schedule: the first overlaps most
\* supports and starts on the earliest date, so that a schedule can produce its
\* occurrences out of chronological order.
SecondEvents ==
    { << DiscreteOutcome(0, 1, 1), DiscreteOutcome(1, One - 1, One) >>,
      << DiscreteOutcome(1, One, One) >> }

GenSchedules == {<<d>> : d \in Distributions}
                   \cup {<<d, e>> : d \in Distributions, e \in SecondEvents}

GenEndpointPairs == {<<account1, account2>>, <<income, account1>>, <<account2, expense>>}

GenFlows == {ScheduledCashFlow("flow", p[1], p[2], a, s) :
                p \in GenEndpointPairs, a \in Amounts, s \in GenSchedules}

\* The flows of the simulation runs.
SimFlows ==
    { \* certain occurrence on day 1
      ScheduledCashFlow("certain", account1, account2, FloatDistribution(1, 1, 1),
          << << DiscreteOutcome(1, One, One) >> >>),
      \* uncertain dates, never effectively certain
      ScheduledCashFlow("uncertain", account1, account2, FloatDistribution(0, 2, 1),
          << << DiscreteOutcome(0, 1, 1), DiscreteOutcome(1, 1, 2) >> >>),
      \* a probability within the certainty tolerance of 1 without being 1
      ScheduledCashFlow("nearly", income, account1, FloatDistribution(1, 1, 1),
          << << DiscreteOutcome(1, One - 1, One - 1), DiscreteOutcome(2, 1, One) >> >>),
      \* part of the probability before a range that starts on day 1 or 2
      ScheduledCashFlow("before", account2, expense, FloatDistribution(1, 2, 2),
          << << DiscreteOutcome(0, 2, 2), DiscreteOutcome(2, One - 2, One) >> >>),
      \* two overlapping occurrences, produced out of chronological order
      ScheduledCashFlow("overlap", account1, account2, FloatDistribution(1, 2, 1),
          << << DiscreteOutcome(1, 2, 2), DiscreteOutcome(2, One - 2, One) >>,
             << DiscreteOutcome(0, 2, 2), DiscreteOutcome(1, One - 2, One) >> >>),
      \* an outcome left by subset(): its cumulative probability is kept
      ScheduledCashFlow("subset", account2, account1, FloatDistribution(0, 1, 1),
          << << DiscreteOutcome(2, 1, One) >> >>) }

SimFlowSeqs == UNION {[1..n -> SimFlows] : n \in 0..MaxFlows}

SimInitialBalances ==
    { EmptyMap,
      [e \in {account1} |-> FloatDistribution(Money(2), Money(4), Money(3))],
      [e \in {account1, expense} |-> singular(Money(5))] }

\* Updates of arbitrary streams given directly to accumulate_endpoint_balances.
AccDeltas == {CashBalanceDelta(-1, 0, 0), CashBalanceDelta(0, 2, 0),
              CashBalanceDelta(0, 0, 1)}

AccUpdates == {CashBalanceUpdate(d, e, delta, "none") :
                  d \in {1, 2}, e \in {account1, account2}, delta \in AccDeltas}

UpdateStreams == UNION {[1..n -> AccUpdates] : n \in 0..MaxUpdates}

AccInitialBalances ==
    { EmptyMap, [e \in {account1} |-> FloatDistribution(-2, 3, 1)] }

\* ------------------------------------------------------------------- Init
Idle ==
    /\ flow_idx = 1
    /\ event_updates = <<>>
    /\ flow_updates = <<>>
    /\ idx = 1
    /\ day = <<>>
    /\ prev_day = date_min
    /\ endpoint_balances = EmptyMap
    /\ endpoints_changed = {}
    /\ balance_records = EmptyMap
    /\ error = "none"

\* No library function is called directly.
NoCall ==
    /\ args = <<>>
    /\ result = <<>>
    /\ generator = <<>>

\* A call of simulate_cash_balances.
Init ==
    /\ cash_flows \in SimFlowSeqs
    /\ date_range \in Ranges
    /\ initial_balances \in SimInitialBalances
    /\ pc = "generate"
    /\ balance_updates = <<>>
    /\ Idle
    /\ NoCall

\* A call of generate_balance_updates for one flow.
InitGen ==
    /\ cash_flows \in {<<f>> : f \in GenFlows}
    /\ date_range \in Ranges
    /\ initial_balances = EmptyMap
    /\ pc = "generate"
    /\ balance_updates = <<>>
    /\ Idle
    /\ NoCall

\* A direct call of accumulate_endpoint_balances on any update stream.
InitAcc ==
    /\ cash_flows = <<>>
    /\ date_range = DateRange(date_min, date_min)
    /\ initial_balances \in AccInitialBalances
    /\ pc = "accumulate"
    /\ balance_updates \in UpdateStreams
    /\ Idle
    /\ NoCall

\* ---------------------------------------------------------------- actions

\* simulate_cash_balances, lines 203-205: generate_balance_updates of the next
\* flow (the generator expression over cash_flows).
GenerateBalanceUpdates ==
    /\ pc = "generate"
    /\ UNCHANGED <<args, result, generator>>
    /\ flow_idx <= Len(cash_flows)
    /\ event_updates' = Append(event_updates,
            EventUpdateIterators(cash_flows[flow_idx], date_range,
                                 DEFAULT_CERTAINTY_TOLERANCE))
    /\ flow_updates' = Append(flow_updates,
            generate_balance_updates(cash_flows[flow_idx], date_range,
                                     DEFAULT_CERTAINTY_TOLERANCE))
    /\ flow_idx' = flow_idx + 1
    /\ UNCHANGED <<cash_flows, date_range, initial_balances, pc, balance_updates, idx,
                   day, prev_day, endpoint_balances, endpoints_changed,
                   balance_records, error>>

\* simulate_cash_balances, lines 203-206: the merge of all flows' streams is
\* handed to accumulate_endpoint_balances.
MergeBalanceUpdates ==
    /\ pc = "generate"
    /\ UNCHANGED <<args, result, generator>>
    /\ flow_idx > Len(cash_flows)
    /\ balance_updates' = merge_by_date(flow_updates)
    /\ pc' = "accumulate"
    /\ UNCHANGED <<cash_flows, date_range, initial_balances, flow_idx, event_updates,
                   flow_updates, idx, day, prev_day, endpoint_balances,
                   endpoints_changed, balance_records, error>>

\* accumulate_endpoint_balances, lines 173-177: the locals.
AccumulateBegin ==
    /\ pc = "accumulate"
    /\ UNCHANGED <<args, result, generator>>
    /\ endpoint_balances' = initial_balances
    /\ balance_records' = EmptyMap
    /\ prev_day' = date_min
    /\ idx' = 1
    /\ day' = <<>>
    /\ endpoints_changed' = {}
    /\ pc' = "groups"
    /\ UNCHANGED <<cash_flows, date_range, initial_balances, flow_idx, event_updates,
                   flow_updates, balance_updates, error>>

\* The exception leaves the function: its locals, the records included, are lost.
Raise(what) ==
    /\ pc' = "failed"
    /\ error' = what
    /\ balance_records' = EmptyMap
    /\ day' = <<>>
    /\ endpoints_changed' = {}
    /\ UNCHANGED <<cash_flows, date_range, initial_balances, flow_idx, event_updates,
                   flow_updates, balance_updates, idx, prev_day, endpoint_balances>>

\* A variant of the order check with the comparison reversed.
OutOfOrder_Reversed(d, prev) == d > prev

\* The chronological order check of a new group (line 179).
OutOfOrder(d, prev) == d < prev

\* Lines 178-182: groupby opens the group of the next update's date.
BeginDay ==
    /\ pc = "groups"
    /\ UNCHANGED <<args, result, generator>>
    /\ day = <<>>
    /\ idx <= Len(balance_updates)
    /\ LET d == balance_updates[idx].date
       IN  IF OutOfOrder(d, prev_day)
           THEN Raise("ValueError: updates must be in chronological order")
           ELSE /\ day' = <<d>>
                /\ endpoints_changed' = {}
                /\ UNCHANGED <<cash_flows, date_range, initial_balances, pc, flow_idx,
                               event_updates, flow_updates, balance_updates, idx,
                               prev_day, endpoint_balances, balance_records, error>>

\* Lines 183-185: one update of the open group is applied.
ApplyUpdate ==
    /\ pc = "groups"
    /\ UNCHANGED <<args, result, generator>>
    /\ day # <<>>
    /\ idx <= Len(balance_updates)
    /\ balance_updates[idx].date = day[1]
    /\ LET update == balance_updates[idx]
           balance == DeltaRadd(BalanceOf(endpoint_balances, update.endpoint),
                                update.delta)
       IN  IF FloatDistributionValid(balance)
           THEN /\ endpoint_balances' = MapSet(endpoint_balances, update.endpoint, balance)
                /\ endpoints_changed' = endpoints_changed \cup {update.endpoint}
                /\ idx' = idx + 1
                /\ UNCHANGED <<cash_flows, date_range, initial_balances, pc, flow_idx,
                               event_updates, flow_updates, balance_updates, day,
                               prev_day, balance_records, error>>
           ELSE Raise("ValueError: min <= mean <= max must be true")

\* A variant that appends a record for every endpoint that has a balance, not
\* only for the endpoints changed on the day.
DayRecords_AllEndpoints(records, changed, d, balances) ==
    [e \in (DOMAIN records) \cup (DOMAIN balances) |->
        Append(RecordsOf(records, e), CashBalanceRecord(d, balances[e]))]

\* The records appended when a group ends (lines 188-190).
DayRecords(records, changed, d, balances) ==
    [e \in (DOMAIN records) \cup changed |->
        IF e \in changed
        THEN Append(RecordsOf(records, e), CashBalanceRecord(d, balances[e]))
        ELSE records[e]]

\* Lines 188-192: the group is exhausted; one record per changed endpoint.
EndDay ==
    /\ pc = "groups"
    /\ UNCHANGED <<args, result, generator>>
    /\ day # <<>>
    /\ \/ idx > Len(balance_updates)
       \/ /\ idx <= Len(balance_updates)
          /\ balance_updates[idx].date # day[1]
    /\ balance_records' = DayRecords(balance_records, endpoints_changed, day[1],
                                     endpoint_balances)
    /\ prev_day' = day[1]
    /\ day' = <<>>
    /\ UNCHANGED <<cash_flows, date_range, initial_balances, pc, flow_idx, event_updates,
                   flow_updates, balance_updates, idx, endpoint_balances,
                   endpoints_changed, error>>

\* Line 194: return dict(result).
AccumulateReturn ==
    /\ pc = "groups"
    /\ UNCHANGED <<args, result, generator>>
    /\ day = <<>>
    /\ idx > Len(balance_updates)
    /\ pc' = "returned"
    /\ UNCHANGED <<cash_flows, date_range, initial_balances, flow_idx, event_updates,
                   flow_updates, balance_updates, idx, day, prev_day, endpoint_balances,
                   endpoints_changed, balance_records, error>>

\* A variant that inserts the opening record whatever the first record is.
NeedsOpening_Always(records, r) == TRUE

\* Whether the opening record is inserted before `records` (line 214).
NeedsOpening(records, r) ==
    records = <<>> \/ r.inclusive_lower_bound < records[1].date

\* Lines 212-215: opening records of the endpoints of initial_balances.
WithOpening(records, r, initial) ==
    [e \in (DOMAIN records) \cup (DOMAIN initial) |->
        IF e \in DOMAIN initial /\ NeedsOpening(RecordsOf(records, e), r)
        THEN <<CashBalanceRecord(r.inclusive_lower_bound, initial[e])>>
                 \o RecordsOf(records, e)
        ELSE records[e]]

\* Whether a closing record is appended to `records` (line 219).
NeedsClosing(records, r) ==
    records = <<>> \/ r.exclusive_upper_bound > records[Len(records)].date

\* Lines 218-220: closing records.
WithClosing(records, r) ==
    [e \in DOMAIN records |->
        IF NeedsClosing(records[e], r)
        THEN Append(records[e],
                    CashBalanceRecord(r.exclusive_upper_bound,
                                      records[e][Len(records[e])].amount))
        ELSE records[e]]

\* Line 208 with an empty range: nothing is added.
SimulateReturnEmpty ==
    /\ pc = "returned"
    /\ UNCHANGED <<args, result, generator>>
    /\ is_empty(date_range)
    /\ pc' = "done"
    /\ UNCHANGED <<cash_flows, date_range, initial_balances, flow_idx, event_updates,
                   flow_updates, balance_updates, idx, day, prev_day, endpoint_balances,
                   endpoints_changed, balance_records, error>>

\* Lines 208-215.
PrependOpening ==
    /\ pc = "returned"
    /\ UNCHANGED <<args, result, generator>>
    /\ ~is_empty(date_range)
    /\ balance_records' = WithOpening(balance_records, date_range, initial_balances)
    /\ pc' = "closing"
    /\ UNCHANGED <<cash_flows, date_range, initial_balances, flow_idx, event_updates,
                   flow_updates, balance_updates, idx, day, prev_day, endpoint_balances,
                   endpoints_changed, error>>

\* Lines 217-222.
AppendClosing ==
    /\ pc = "closing"
    /\ UNCHANGED <<args, result, generator>>
    /\ balance_records' = WithClosing(balance_records, date_range)
    /\ pc' = "done"
    /\ UNCHANGED <<cash_flows, date_range, initial_balances, flow_idx, event_updates,
                   flow_updates, balance_updates, idx, day, prev_day, endpoint_balances,
                   endpoints_changed, error>>

Accumulate == AccumulateBegin \/ BeginDay \/ ApplyUpdate \/ EndDay \/ AccumulateReturn

Next ==
    \/ GenerateBalanceUpdates
    \/ MergeBalanceUpdates
    \/ Accumulate
    \/ SimulateReturnEmpty
    \/ PrependOpening
    \/ AppendClosing

\* simulate_cash_balances
Spec == Init /\ [][Next]_vars

NextGen == GenerateBalanceUpdates

\* generate_balance_updates of a single flow
SpecGen == InitGen /\ [][NextGen]_vars

NextAcc == Accumulate

\* accumulate_endpoint_balances on its own
SpecAcc == InitAcc /\ [][NextAcc]_vars

\* =====================================================================
\* Properties of accumulate_endpoint_balances (SpecAcc)
\* =====================================================================

\* A stream is in chronological order when its dates never decrease.
Sorted(updates) ==
    \A i \in 1..(Len(updates) - 1) : updates[i].date <= updates[i + 1].date

\* The sum of one component of the deltas of the updates of `endpoint` dated
\* no later than d.
DeltaSumMin(updates, endpoint, d) ==
    SumSeq([i \in 1..Len(updates) |->
               IF updates[i].endpoint = endpoint /\ updates[i].date <= d
               THEN updates[i].delta.min ELSE 0])

DeltaSumMax(updates, endpoint, d) ==
    SumSeq([i \in 1..Len(updates) |->
               IF updates[i].endpoint = endpoint /\ updates[i].date <= d
               THEN updates[i].delta.max ELSE 0])

DeltaSumMean(updates, endpoint, d) ==
    SumSeq([i \in 1..Len(updates) |->
               IF updates[i].endpoint = endpoint /\ updates[i].date <= d
               THEN updates[i].delta.mean ELSE 0])

\* The balance of `endpoint` at the end of day d, from the inputs alone.
ExpectedBalance(initial, updates, endpoint, d) ==
    LET start == IF endpoint \in DOMAIN initial THEN initial[endpoint]
                 ELSE [min |-> 0, max |-> 0, mean |-> 0]
    IN  [min |-> start.min + DeltaSumMin(updates, endpoint, d),
         max |-> start.max + DeltaSumMax(updates, endpoint, d),
         mean |-> start.mean + DeltaSumMean(updates, endpoint, d)]

UpdatesOn(updates, endpoint, d) ==
    {i \in 1..Len(updates) : updates[i].endpoint = endpoint /\ updates[i].date = d}

\* C2: every record (d, amount) that accumulate_endpoint_balances returns for
\* an endpoint e has amount equal to the initial balance of e (zero in every
\* component when e has none) plus the component-wise sum of the deltas of all
\* updates for e dated no later than d; the result is thus a function of the
\* initial balances and the update stream alone.
C2_RecordIsInitialPlusDeltas ==
    pc = "returned" =>
        \A e \in DOMAIN balance_records :
            \A i \in 1..Len(balance_records[e]) :
                balance_records[e][i].amount =
                    ExpectedBalance(initial_balances, balance_updates, e,
                                    balance_records[e][i].date)

\* A returned result with an endpoint that has an initial balance and at
\* least two records, and an endpoint without initial balance with a record.
C2_Witness ==
    /\ pc = "returned"
    /\ \E e \in DOMAIN balance_records :
          e \in DOMAIN initial_balances /\ Len(balance_records[e]) >= 2
    /\ \E e \in DOMAIN balance_records :
          e \notin DOMAIN initial_balances /\ Len(balance_records[e]) >= 1

\* C3: while a chronologically ordered stream is accumulated, an endpoint has
\* at most one record per date, a record dated d exists only for an endpoint
\* with an update dated d and carries the balance after all of that day's
\* updates for the endpoint; in the returned result every endpoint has exactly
\* one record for each date on which it has an update, and no other record.
C3_OneRecordPerChangedEndpointPerDay ==
    Sorted(balance_updates) =>
        /\ \A e \in DOMAIN balance_records :
              \A i \in 1..Len(balance_records[e]) :
                  LET d == balance_records[e][i].date
                  IN  /\ UpdatesOn(balance_updates, e, d) # {}
                      /\ \A j \in 1..Len(balance_records[e]) :
                            balance_records[e][j].date = d => j = i
                      /\ balance_records[e][i].amount =
                            ExpectedBalance(initial_balances, balance_updates, e, d)
                      /\ \A k \in UpdatesOn(balance_updates, e, d) : k < idx
        /\ pc = "returned" =>
              \A k \in 1..Len(balance_updates) :
                  LET e == balance_updates[k].endpoint
                  IN  /\ e \in DOMAIN balance_records
                      /\ \E i \in 1..Len(balance_records[e]) :
                            balance_records[e][i].date = balance_updates[k].date

\* A returned result where one endpoint has two updates on one day, and an
\* endpoint with an initial balance but no update has no record.
C3_Witness ==
    /\ pc = "returned"
    /\ \E e \in DOMAIN balance_records, d \in Dates :
          Cardinality(UpdatesOn(balance_updates, e, d)) >= 2
    /\ \E e \in DOMAIN initial_balances : e \notin DOMAIN balance_records
    /\ balance_records # EmptyMap

\* C4: accumulate_endpoint_balances fails and returns no records for every
\* stream that is not in non-decreasing date order, and a stream in
\* non-decreasing date order never fails with the chronological order error (it
\* fails only when an update leaves a balance without min <= mean <= max).
C4_OrderErrorOnlyForUnsorted ==
    /\ pc = "returned" => Sorted(balance_updates)
    /\ pc = "failed" => balance_records = EmptyMap
    /\ error = "ValueError: updates must be in chronological order"
          => ~Sorted(balance_updates)
    /\ (pc = "failed" /\ Sorted(balance_updates))
          => error = "ValueError: min <= mean <= max must be true"

\* The order error raised after records of an earlier day had been collected.
C4_Witness ==
    /\ pc = "failed"
    /\ error = "ValueError: updates must be in chronological order"
    /\ idx = 3
    /\ balance_updates[1].endpoint # balance_updates[3].endpoint

\* C4 as stated: the function fails exactly for the streams that are not in
\* non-decreasing date order.
C4_FailsIffUnsorted ==
    /\ pc = "returned" => Sorted(balance_updates)
    /\ pc = "failed" => ~Sorted(balance_updates)

\* =====================================================================
\* Properties of simulate_cash_balances (Spec)
\* =====================================================================

\* The occurrences of a flow of the run that have an outcome in the range.
EventsOf(k) == ScheduleIterate(cash_flows[k].schedule, date_range)

InRange(o) ==
    /\ date_range.inclusive_lower_bound <= o.value
    /\ o.value < date_range.exclusive_upper_bound

\* C1: every balance record that simulate_cash_balances holds or returns,
\* the opening and closing records included, has min <= mean <= max, whatever
\* the flows: occurrences with uncertain dates, with part of their probability
\* before the start of the range, or with probabilities within the certainty
\* tolerance of 1.
C1_RecordsConsistent ==
    \A e \in DOMAIN balance_records :
        \A i \in 1..Len(balance_records[e]) :
            /\ balance_records[e][i].amount.min <= balance_records[e][i].amount.mean
            /\ balance_records[e][i].amount.mean <= balance_records[e][i].amount.max

\* A finished simulation with records, one flow having an outcome before the
\* start of the range and another an in-range outcome whose probability is
\* within the tolerance of 1 without being 1.
C1_Witness ==
    /\ pc = "done"
    /\ \E e \in DOMAIN balance_records : Len(balance_records[e]) >= 2
    /\ \E k \in DOMAIN cash_flows : \E n \in DOMAIN EventsOf(k) :
          EventsOf(k)[n][1].value < date_range.inclusive_lower_bound
    /\ \E k \in DOMAIN cash_flows : \E n \in DOMAIN EventsOf(k) :
          \E i \in DOMAIN EventsOf(k)[n] :
              /\ InRange(EventsOf(k)[n][i])
              /\ EventsOf(k)[n][i].probability >= One - DEFAULT_CERTAINTY_TOLERANCE
              /\ EventsOf(k)[n][i].probability < One

\* C5: the stream generate_balance_updates yields for a flow is in
\* non-decreasing date order whatever order the schedule produces its
\* occurrences in, so is the merged stream of all flows, and
\* accumulate_endpoint_balances never rejects it as out of order.
C5_GeneratedStreamsSorted ==
    /\ \A k \in DOMAIN flow_updates : Sorted(flow_updates[k])
    /\ Sorted(balance_updates)
    /\ error # "ValueError: updates must be in chronological order"

\* An accumulated run with a flow whose second occurrence starts before its
\* first and overlaps it.
C5_Witness ==
    /\ pc = "returned"
    /\ \E k \in DOMAIN event_updates :
          /\ Len(event_updates[k]) = 2
          /\ event_updates[k][2][1].date < event_updates[k][1][1].date
          /\ event_updates[k][2][Len(event_updates[k][2])].date
                > event_updates[k][1][1].date

\* C6: the records of every endpoint are strictly increasing in date at every
\* point of simulate_cash_balances, the opening and closing records included.
C6_RecordDatesStrictlyIncrease ==
    \A e \in DOMAIN balance_records :
        \A i \in 1..(Len(balance_records[e]) - 1) :
            balance_records[e][i].date < balance_records[e][i + 1].date

\* A finished simulation where an endpoint with an initial balance has an
\* update dated at the start of the range and one dated at its end.
C6_Witness ==
    /\ pc = "done"
    /\ \E e \in DOMAIN initial_balances :
          /\ \E i \in DOMAIN balance_updates :
                /\ balance_updates[i].endpoint = e
                /\ balance_updates[i].date = date_range.inclusive_lower_bound
          /\ \E i \in DOMAIN balance_updates :
                /\ balance_updates[i].endpoint = e
                /\ balance_updates[i].date = date_range.exclusive_upper_bound

\* =====================================================================
\* Properties of generate_balance_updates (SpecGen)
\* =====================================================================

SetMin(S) == CHOOSE x \in S : \A y \in S : x <= y

SetMax(S) == CHOOSE x \in S : \A y \in S : x >= y

\* generate_balance_updates has been called for the flow of the run.
Generated == Len(event_updates) = 1

\* The indices of the outcomes of occurrence E inside the range.
InRangeIdx(E) == {i \in DOMAIN E : InRange(E[i])}

\* The earliest outcome date of E at or after the start of the range.
FirstDate(E) ==
    SetMin({E[i].value : i \in {j \in DOMAIN E :
                                   E[j].value >= date_range.inclusive_lower_bound}})

\* The index of the latest outcome of E at or before the last day of the range.
LastIdx(E) ==
    SetMax({j \in DOMAIN E : E[j].value <= date_range.exclusive_upper_bound - 1})

\* The probability of E inside the range.
ProbabilityInRange(E) ==
    SumSeq([i \in DOMAIN E |-> IF InRange(E[i]) THEN E[i].probability ELSE 0])

\* A probability within the tolerance of 1 counts as 1.
Clamped(p) == IF p >= One - DEFAULT_CERTAINTY_TOLERANCE THEN One ELSE p

\* E is effectively certain to have happened by the last day of the range.
CertainByEnd(E) ==
    E[LastIdx(E)].cumulative_probability >= One - DEFAULT_CERTAINTY_TOLERANCE

\* C7: for every occurrence the schedule yields for the range, the stream of
\* the occurrence starts with exactly one lower bound pair: the minimum of the
\* source decreases by amount.max and the maximum of the sink increases by
\* amount.max, both dated at the earliest outcome of the occurrence at or
\* after the start of the range; every other update of the occurrence is dated
\* later.
C7_LowerBoundPair ==
    Generated =>
        /\ Len(event_updates[1]) = Len(EventsOf(1))
        /\ \A k \in DOMAIN event_updates[1] :
              LET s == event_updates[1][k]
                  E == EventsOf(1)[k]
                  f == cash_flows[1]
              IN  /\ Len(s) >= 2
                  /\ s[1] = [date |-> FirstDate(E), endpoint |-> f.source,
                             delta |-> [min |-> -(f.amount.max * One), max |-> 0,
                                        mean |-> 0],
                             cause |-> f.label]
                  /\ s[2] = [date |-> FirstDate(E), endpoint |-> f.sink,
                             delta |-> [min |-> 0, max |-> f.amount.max * One,
                                        mean |-> 0],
                             cause |-> f.label]
                  /\ \A i \in 3..Len(s) : s[i].date > FirstDate(E)

\* An occurrence whose earliest outcome lies before the start of the range.
C7_Witness ==
    /\ Generated
    /\ \E k \in DOMAIN event_updates[1] :
          /\ EventsOf(1)[k][1].value < date_range.inclusive_lower_bound
          /\ Len(EventsOf(1)[k]) >= 2

\* C8: for every outcome (d, p) of an occurrence inside the range, the stream
\* of the occurrence holds exactly one pair of mean updates dated d + 1, the
\* mean of the source decreasing and the mean of the sink increasing by
\* amount.mean * p', where p' is 1 if p is within the certainty tolerance of 1
\* and p otherwise; no other update of the occurrence changes a mean, so an
\* outcome outside the range produces no mean update.
C8_MeanUpdatePairs ==
    Generated =>
        \A k \in DOMAIN event_updates[1] :
            LET s == event_updates[1][k]
                E == EventsOf(1)[k]
                f == cash_flows[1]
                n == Cardinality(InRangeIdx(E))
                a == SetMin(InRangeIdx(E))
            IN  /\ n >= 1
                /\ Len(s) >= 2 + 2 * n
                /\ \A j \in 1..n :
                      LET o == E[a + j - 1]
                          x == f.amount.mean * Clamped(o.probability)
                      IN  /\ s[2 * j + 1] =
                                [date |-> o.value + 1, endpoint |-> f.source,
                                 delta |-> [min |-> 0, max |-> 0, mean |-> -x],
                                 cause |-> f.label]
                          /\ s[2 * j + 2] =
                                [date |-> o.value + 1, endpoint |-> f.sink,
                                 delta |-> [min |-> 0, max |-> 0, mean |-> x],
                                 cause |-> f.label]
                /\ \A i \in DOMAIN s :
                      (i <= 2 \/ i > 2 + 2 * n) => s[i].delta.mean = 0

\* An occurrence with an outcome outside the range and an outcome inside it
\* whose probability is within the tolerance of 1 without being 1.
C8_Witness ==
    /\ Generated
    /\ \E k \in DOMAIN event_updates[1] :
          LET E == EventsOf(1)[k]
          IN  /\ \E i \in DOMAIN E : ~InRange(E[i])
              /\ \E i \in InRangeIdx(E) :
                    /\ E[i].probability >= One - DEFAULT_CERTAINTY_TOLERANCE
                    /\ E[i].probability < One

\* C9: the stream of an occurrence ends with an upper bound pair if and only
\* if the cumulative probability of the occurrence up to the last day of the
\* range is within the certainty tolerance of 1; the pair decreases the
\* maximum of the source and increases the minimum of the sink by amount.min
\* times the clamped probability of the occurrence inside the range, and is
\* dated the day after the latest outcome at or before the last day of the
\* range.
C9_UpperBoundPair ==
    Generated =>
        \A k \in DOMAIN event_updates[1] :
            LET s == event_updates[1][k]
                E == EventsOf(1)[k]
                f == cash_flows[1]
                n == Cardinality(InRangeIdx(E))
                x == f.amount.min * Clamped(ProbabilityInRange(E))
                d == E[LastIdx(E)].value + 1
            IN  IF CertainByEnd(E)
                THEN /\ Len(s) = 2 * n + 4
                     /\ s[2 * n + 3] =
                           [date |-> d, endpoint |-> f.source,
                            delta |-> [min |-> 0, max |-> -x, mean |-> 0],
                            cause |-> f.label]
                     /\ s[2 * n + 4] =
                           [date |-> d, endpoint |-> f.sink,
                            delta |-> [min |-> x, max |-> 0, mean |-> 0],
                            cause |-> f.label]
                ELSE Len(s) = 2 * n + 2

\* A flow with a positive minimum amount and an occurrence that is certain by
\* the end of the range although only part of its probability is inside it.
C9_Witness ==
    /\ Generated
    /\ cash_flows[1].amount.min > 0
    /\ \E k \in DOMAIN event_updates[1] :
          LET E == EventsOf(1)[k]
          IN  /\ CertainByEnd(E)
              /\ ProbabilityInRange(E) < One - DEFAULT_CERTAINTY_TOLERANCE

C11_EveryEndpointSpansRange ==
    (pc = "done" /\ ~is_empty(date_range) /\ has_proper_upper_bound(date_range)) =>
        \A e \in DOMAIN balance_records :
            /\ balance_records[e][1].date = date_range.inclusive_lower_bound
            /\ balance_records[e][Len(balance_records[e])].date
                  = date_range.exclusive_upper_bound

\* C12: the closing step appends to an endpoint's records a record dated at
\* the exclusive upper bound of the range, with the amount of the endpoint's
\* last record, exactly when the range has a proper upper bound and the
\* endpoint has no record at that date; for a range whose upper bound is
\* date.max the records are left as they are.
C12_ClosingOnlyForProperUpperBound ==
    [][pc = "closing" =>
          \A e \in DOMAIN balance_records :
              LET records == balance_records[e]
                  last == records[Len(records)]
              IN  balance_records'[e] =
                      IF /\ has_proper_upper_bound(date_range)
                         /\ last.date # date_range.exclusive_upper_bound
                      THEN Append(records,
                                  [date |-> date_range.exclusive_upper_bound,
                                   amount |-> last.amount])
                      ELSE records]_vars

\* =====================================================================
\* Direct calls of library functions
\* =====================================================================

\* No simulation is running: its arguments and locals are empty.
NoSimulation ==
    /\ cash_flows = <<>>
    /\ date_range = DateRange(date_min, date_min)
    /\ initial_balances = EmptyMap
    /\ balance_updates = <<>>
    /\ Idle

\* ------------------------------------------------- merge_by_date (SpecMerge)
MaxIterables == 3
MaxItems == 2
MaxMergeDate == 1

\* Non-decreasing sequences of at most MaxItems dates.
MergeDateSeqs ==
    UNION { {ds \in [1..n -> date_min..MaxMergeDate] :
                \A k \in 1..(n - 1) : ds[k] <= ds[k + 1]} : n \in 0..MaxItems }

\* The iterable at position i with the given dates.  An item carries a date
\* and a payload that is never compared; the payload tells the items apart.
HasDateItems(i, ds) ==
    [k \in 1..Len(ds) |-> [date |-> ds[k], item |-> <<i, k>>]]

\* A call merge_by_date(iterables).
InitMerge ==
    /\ NoSimulation
    /\ pc = "call"
    /\ \E n \in 0..MaxIterables : \E dss \in [1..n -> MergeDateSeqs] :
          args = [i \in 1..n |-> HasDateItems(i, dss[i])]
    /\ result = <<>>
    /\ generator = <<>>

\* The call returns the merged items (as a tuple).
MergeByDate ==
    /\ pc = "call"
    /\ result' = merge_by_date(args)
    /\ pc' = "returned"
    /\ UNCHANGED <<cash_flows, date_range, initial_balances, flow_idx,
                   event_updates, flow_updates, balance_updates, idx, day,
                   prev_day, endpoint_balances, endpoints_changed,
                   balance_records, error, args, generator>>

NextMerge == MergeByDate

\* merge_by_date on its own
SpecMerge == InitMerge /\ [][NextMerge]_vars

\* ------------------------------------------- EventSchedule.iterate (SpecSched)
MaxPeriod == 2

\* The calendar window of the schedule calls starts on Monday 2024-01-01, the
\* first day of a leap year; W(k) is its day k.
Epoch == date(2024, 1, 1)
W(k) == Epoch + k

\* Days of the week and of the month as outcomes of a day distribution.
\* P(n) is the probability of n units of 1/PScale.
TuesdayOrThursday == <<DiscreteOutcome(1, 1, 1), DiscreteOutcome(3, 1, 2)>>
MondayOrSunday == <<DiscreteOutcome(0, 2, 2), DiscreteOutcome(6, One - 2, One)>>
EndOfMonth ==
    <<DiscreteOutcome(29, 1, 1), DiscreteOutcome(30, 1, 2),
      DiscreteOutcome(31, One - 2, One)>>
FirstOrLast == <<DiscreteOutcome(1, 1, 1), DiscreteOutcome(31, 1, 2)>>

WeeklyDays ==
    { AnInt(4), AnInt(0), ADistribution(TuesdayOrThursday),
      ADistribution(MondayOrSunday),
      ASimpleSchedule(<< <<>>, DiscreteDistribution_singular(2), TuesdayOrThursday >>) }

SchedRanges ==
    { DateRangeAll, DateRange(W(3), W(25)), DateRange(W(9), date_max) }

SchedExcludes ==
    { <<>>,
      <<ExcludeDate(W(8))>>,
      <<ExcludeRange(DateRange(W(14), W(21))), ExcludeRange(DateRange(W(4), W(4))),
        ExcludeDate(W(4))>> }

SchedBounds == {date_min, W(0), W(2), W(10), W(17), W(30), date_max}

SchedQueries ==
    {r \in [inclusive_lower_bound : SchedBounds, exclusive_upper_bound : SchedBounds] :
        DateRangeValid(r)}

WeeklySchedules ==
    {w \in {Weekly(on, range, period, exclude) :
               on \in WeeklyDays, range \in SchedRanges, period \in 1..MaxPeriod,
               exclude \in SchedExcludes} : WeeklyValid(w)}

MonthlyDays ==
    { AnInt(31), AnInt(15), ASimpleSchedule(<<EndOfMonth>>),
      ASimpleSchedule(<<FirstOrLast, DiscreteDistribution_singular(30)>>) }

MonthlyRanges == { DateRangeAll, DateRange(date(2023, 1, 15), date(2024, 5, 1)) }

MonthlyExcludes ==
    { <<>>,
      <<ExcludeDate(date(2024, 3, 31))>>,
      <<ExcludeRange(DateRange(date(2024, 1, 29), date(2024, 1, 31))),
        ExcludeDate(date(2024, 3, 1))>> }

MonthlyBounds ==
    {date_min, date(2023, 2, 1), date(2023, 3, 31), date(2024, 1, 31),
     date(2024, 2, 1), date(2024, 3, 1), date(2024, 4, 1), date(2024, 5, 1),
     date_max}

MonthlyQueries ==
    {r \in [inclusive_lower_bound : MonthlyBounds, exclusive_upper_bound : MonthlyBounds] :
        DateRangeValid(r)}

MonthlySchedules ==
    {m \in {Monthly(on, range, period, exclude) :
               on \in MonthlyDays, range \in MonthlyRanges, period \in 1..MaxPeriod,
               exclude \in MonthlyExcludes} : MonthlyValid(m)}

OnceSchedules ==
    { Once(ADate(W(10))), Once(ADate(W(2))),
      Once(ADistribution(<<DiscreteOutcome(W(2), 1, 1), DiscreteOutcome(W(17), 2, 3)>>)),
      Once(ADistribution(<<DiscreteOutcome(W(12), One, One)>>)),
      Once(ADistribution(<<>>)) }

DayByDaySchedules ==
    UNION { {Daily(range, exclude), Weekdays(range, exclude), Weekends(range, exclude)} :
               range \in SchedRanges, exclude \in SchedExcludes }

\* The calls schedule.iterate(date_range).  A day-by-day schedule is called
\* over fully bounded dates only (it walks every date of the intersection).
ScheduleCalls ==
    {[self |-> s, date_range |-> q] : s \in OnceSchedules \cup WeeklySchedules,
                                       q \in SchedQueries}
    \cup {[self |-> s, date_range |-> q] : s \in MonthlySchedules, q \in MonthlyQueries}
    \cup {c \in {[self |-> s, date_range |-> q] : s \in DayByDaySchedules,
                                                   q \in SchedQueries} :
             FullyBounded(DateRangeAnd(c.date_range, c.self.range))}

InitSched ==
    /\ NoSimulation
    /\ pc = "call"
    /\ args \in ScheduleCalls
    /\ result = <<>>
    /\ generator = <<>>

\* The call returns or raises; the generator is consumed as tuple(...).
Finish(outcome) ==
    /\ result' = outcome
    /\ pc' = IF outcome.raised = "none" THEN "returned" ELSE "raised"
    /\ UNCHANGED <<cash_flows, date_range, initial_balances, flow_idx,
                   event_updates, flow_updates, balance_updates, idx, day,
                   prev_day, endpoint_balances, endpoints_changed,
                   balance_records, error, args, generator>>

IterateOnce ==
    /\ pc = "call"
    /\ args.self.kind = "Once"
    /\ Finish(Returned(OnceIterate(args.self, args.date_range)))

IterateDaily ==
    /\ pc = "call"
    /\ args.self.kind = "Daily"
    /\ Finish(Returned(DailyIterate(args.self, args.date_range)))

IterateWeekdays ==
    /\ pc = "call"
    /\ args.self.kind = "Weekdays"
    /\ Finish(Returned(WeekdaysIterate(args.self, args.date_range)))

IterateWeekends ==
    /\ pc = "call"
    /\ args.self.kind = "Weekends"
    /\ Finish(Returned(WeekendsIterate(args.self, args.date_range)))

IterateWeekly ==
    /\ pc = "call"
    /\ args.self.kind = "Weekly"
    /\ Finish(WeeklyIterate(args.self, args.date_range))

IterateMonthly ==
    /\ pc = "call"
    /\ args.self.kind = "Monthly"
    /\ Finish(MonthlyIterate(args.self, args.date_range))

NextSched ==
    \/ IterateOnce
    \/ IterateDaily
    \/ IterateWeekdays
    \/ IterateWeekends
    \/ IterateWeekly
    \/ IterateMonthly

\* EventSchedule.iterate of every schedule class
SpecSched == InitSched /\ [][NextSched]_vars

\* The items of sequence s dated d, in the order of s.
ItemsOn(s, d) ==
    LET OnDate(x) == x.date = d
    IN  SelectSeq(s, OnDate)

\* The items dated d of all the iterables from position i on, iterable after
\* iterable.
RECURSIVE ItemsOnFrom(_, _, _)
ItemsOnFrom(iterables, i, d) ==
    IF i > Len(iterables) THEN <<>>
    ELSE ItemsOn(iterables[i], d) \o ItemsOnFrom(iterables, i + 1, d)

\* C13: merge_by_date of iterables in non-decreasing date order returns
\* every item of every iterable exactly once, in non-decreasing date order;
\* the items of one date come in the order of their iterables and, within
\* an iterable, in their original order.
C13_MergeIsStableByDate ==
    pc = "returned" =>
        /\ \A k \in 1..(Len(result) - 1) : result[k].date <= result[k + 1].date
        /\ \A d \in date_min..MaxMergeDate :
              ItemsOn(result, d) = ItemsOnFrom(args, 1, d)
        /\ Len(result) = SumSeq([i \in DOMAIN args |-> Len(args[i])])

\* A merge of three iterables where two have items of the same date, one of
\* them two such items, and the first iterable also has a later item.
C13_Witness ==
    /\ pc = "returned"
    /\ Len(args) = 3
    /\ Len(result) >= 5
    /\ \E d \in date_min..MaxMergeDate :
          /\ Len(ItemsOn(args[2], d)) = 2
          /\ Len(ItemsOn(args[1], d)) = 1
          /\ \E k \in DOMAIN args[1] : args[1][k].date > d

\* =====================================================================
\* Schedules (SpecSched)
\* =====================================================================

\* The call in progress is schedule.iterate of a schedule of this kind and
\* has returned.
ReturnedFrom(kind) ==
    /\ pc = "returned"
    /\ args.self.kind = kind

\* Whether the distribution has an outcome dated in [lower, exclusive upper)
\* of range r.
HasOutcomeIn(outcomes, r) ==
    \E i \in DOMAIN outcomes :
        /\ r.inclusive_lower_bound <= outcomes[i].value
        /\ outcomes[i].value < r.exclusive_upper_bound

\* C19: Once.iterate(range) with a concrete date returns exactly one
\* singular occurrence on that date if the date is in the range and nothing
\* otherwise; with a date distribution it returns the distribution itself,
\* unchanged, if the distribution has an outcome in the range and nothing
\* otherwise.
C19_OnceReturnsDateOrWholeDistribution ==
    ReturnedFrom("Once") =>
        LET when == args.self.date
            r == args.date_range
        IN  /\ when.type = "date" =>
                  result.value =
                      IF r.inclusive_lower_bound <= when.value
                         /\ when.value < r.exclusive_upper_bound
                      THEN << <<DiscreteOutcome(when.value, One, One)>> >>
                      ELSE <<>>
            /\ when.type = "DiscreteDistribution" =>
                  result.value =
                      IF HasOutcomeIn(when.outcomes, r) THEN <<when.outcomes>> ELSE <<>>

\* Once with a date distribution that has an outcome inside the range and
\* one outside of it has returned the distribution.
C19_Witness ==
    /\ ReturnedFrom("Once")
    /\ args.self.date.type = "DiscreteDistribution"
    /\ Len(result.value) = 1
    /\ \E i \in DOMAIN args.self.date.outcomes :
          ~DateRangeContains(args.date_range, args.self.date.outcomes[i].value)

\* C14: every occurrence returned by iterate(range) of Once, Daily,
\* Weekdays, Weekends, Weekly and Monthly has at least one outcome dated in
\* [lower bound, exclusive upper bound) of the query range; an occurrence
\* with no outcome in the range is never returned.
C14_OccurrencesHaveOutcomeInRange ==
    pc = "returned" =>
        \A k \in DOMAIN result.value : HasOutcomeIn(result.value[k], args.date_range)

\* A weekly schedule with a day distribution has returned occurrences, one
\* of them with an outcome outside the query range, over a query that
\* starts or ends inside an aligned week.
C14_Witness ==
    /\ ReturnedFrom("Weekly")
    /\ args.self.day.type = "DiscreteDistribution"
    /\ Len(result.value) >= 2
    /\ \E k \in DOMAIN result.value : \E i \in DOMAIN result.value[k] :
          ~DateRangeContains(args.date_range, result.value[k][i].value)

\* The dates a weekly schedule with a fixed weekday is to occur on within
\* the query: the dates of that weekday in the query range and in the
\* validity range, not excluded, in a week that is a multiple of `period`
\* weeks after the week of the validity range's lower bound.
WeeklyFixedDayDates(self, query) ==
    {d \in query.inclusive_lower_bound..(query.exclusive_upper_bound - 1) :
        /\ weekday(d) = self.day.value
        /\ DateRangeContains(self.range, d)
        /\ ~is_occurrence_excluded(d, self.exclude)
        /\ (((d - weekday(d)) - (self.range.inclusive_lower_bound
                                  - weekday(self.range.inclusive_lower_bound))) \div 7)
               % self.period = 0}

\* C15: Weekly.iterate with a fixed weekday yields singular occurrences in
\* ascending date order, each date once: exactly the dates of the configured
\* weekday that are in the query range and in the validity range, are not
\* excluded, and lie in a week that is a multiple of `period` weeks after
\* the week containing the validity range's lower bound.
C15_WeeklyFixedDayYieldsAlignedDates ==
    (pc \in {"returned", "raised"} /\ args.self.kind = "Weekly"
        /\ args.self.day.type = "int") =>
        /\ pc = "returned"
        /\ \A k \in DOMAIN result.value :
              /\ Len(result.value[k]) = 1
              /\ result.value[k][1].probability = One
        /\ \A k \in 1..(Len(result.value) - 1) :
              result.value[k][1].value < result.value[k + 1][1].value
        /\ {result.value[k][1].value : k \in DOMAIN result.value}
              = WeeklyFixedDayDates(args.self,
                                    DateRangeAnd(args.date_range, args.self.range))

\* The probability the day distribution gives to the day of the month.
ConfiguredProbability(day_distribution, day_of_month) ==
    LET i == CHOOSE i \in DOMAIN day_distribution :
                 day_distribution[i].value = day_of_month
    IN  day_distribution[i].probability

\* Whether `occurrence` is what the day distribution gives for the month:
\* exactly its days that the month has (and that are not excluded), each
\* with the probability the distribution gives it.
IsMonthOccurrence(occurrence, day_distribution, month, exclude) ==
    LET valid == {i \in DOMAIN day_distribution :
                     /\ day_distribution[i].value <= DaysInMonth(month.year, month.month)
                     /\ ~is_occurrence_excluded(
                            date(month.year, month.month, day_distribution[i].value),
                            exclude)}
    IN  /\ {occurrence[k].value : k \in DOMAIN occurrence}
              = {date(month.year, month.month, day_distribution[i].value) : i \in valid}
        /\ \A k \in DOMAIN occurrence :
              occurrence[k].probability =
                  ConfiguredProbability(day_distribution,
                                        occurrence[k].value
                                            - date(month.year, month.month, 1) + 1)

\* C16: every occurrence a Monthly schedule with day distributions returns
\* is, for one month and one configured distribution, exactly the configured
\* days that are valid in that month (and not excluded), each with the
\* probability configured for it; no occurrence is empty, so a month with no
\* valid day yields none.
C16_MonthKeepsValidDaysAndProbabilities ==
    (ReturnedFrom("Monthly") /\ args.self.day.type = "SimpleSchedule") =>
        \A k \in DOMAIN result.value :
            LET occurrence == result.value[k]
            IN  /\ occurrence # <<>>
                /\ \E j \in DOMAIN args.self.day.distributions :
                      IsMonthOccurrence(occurrence, args.self.day.distributions[j],
                                        MonthOf(occurrence[1].value), args.self.exclude)

\* Days 29, 30 and 31 over a query that covers the leap-year February and
\* April: February's occurrence is the 29th alone with its configured
\* probability, April's has the 29th and the 30th.
C16_Witness ==
    /\ ReturnedFrom("Monthly")
    /\ args.self.day = ASimpleSchedule(<<EndOfMonth>>)
    /\ args.self.exclude = <<>>
    /\ \E k \in DOMAIN result.value :
          result.value[k] = <<DiscreteOutcome(date(2024, 2, 29), 1, 1)>>
    /\ \E k \in DOMAIN result.value :
          /\ Len(result.value[k]) = 2
          /\ result.value[k][2].value = date(2024, 4, 30)

\* Days 29, 30 and 31 over a query that covers February 2023, which has none
\* of them: the first occurrence returned is March's.
C16_WitnessNoValidDay ==
    /\ ReturnedFrom("Monthly")
    /\ args.self.day = ASimpleSchedule(<<EndOfMonth>>)
    /\ args.date_range.inclusive_lower_bound = date(2023, 2, 1)
    /\ result.value # <<>>
    /\ result.value[1][1].value = date(2023, 3, 29)

\* The sum of the probabilities of the first n outcomes.
RECURSIVE probability_sum(_, _)
probability_sum(outcomes, n) ==
    IF n = 0 THEN 0
    ELSE probability_sum(outcomes, n - 1) + outcomes[n].probability

\* C17: in every occurrence Weekly.iterate and Monthly.iterate return, the
\* cumulative probabilities are those rebuilt from the outcomes that remain
\* after the exclusions: each outcome's cumulative probability is the sum of
\* the remaining probabilities up to it, so the last one's equals the sum of
\* all remaining probabilities.
C17_ExclusionRebuildsCumulative ==
    (ReturnedFrom("Weekly") \/ ReturnedFrom("Monthly")) =>
        \A k \in DOMAIN result.value :
            \A i \in DOMAIN result.value[k] :
                result.value[k][i].cumulative_probability
                    = probability_sum(result.value[k], i)

\* C18: every outcome of every occurrence Weekly.iterate returns for a day
\* distribution or a day schedule is dated inside the intersection of the
\* query range and the schedule's range, and has the probability and the
\* cumulative probability its weekday has in a configured distribution.
C18_WeeklyClipsToIntersection ==
    (ReturnedFrom("Weekly") /\ args.self.day.type # "int") =>
        \A k \in DOMAIN result.value :
            \A i \in DOMAIN result.value[k] :
                LET outcome == result.value[k][i]
                IN  /\ DateRangeContains(
                           DateRangeAnd(args.date_range, args.self.range),
                           outcome.value)
                    /\ \E distribution \in
                              {WeeklyDaySchedule(args.self)[j] :
                                   j \in DOMAIN WeeklyDaySchedule(args.self)} :
                          \E n \in DOMAIN distribution :
                              /\ distribution[n].value = weekday(outcome.value)
                              /\ distribution[n].probability = outcome.probability
                              /\ distribution[n].cumulative_probability
                                     = outcome.cumulative_probability

\* ------------------------------------ DiscreteDistribution calls (SpecDist)
MaxValue == 2
MaxWeight == 3

\* The values of the outcomes.
DistValues == 1..MaxValue

\* The DiscreteOutcome objects that can exist: those __post_init__ accepts.
DistOutcomes ==
    {o \in [value : DistValues, probability : 1..One,
            cumulative_probability : 1..One] : DiscreteOutcomeValid(o)}

\* The iterables of n outcomes given to the constructor, in any order.
OutcomeTables(n) == [1..n -> DistOutcomes]

\* The distributions of n outcomes that exist: the tables the constructor
\* accepts.
ValidTables(n) == {t \in OutcomeTables(n) : DiscreteDistributionValid(t)}

\* The mappings from values to weights; a weight may be negative or zero.
WeightMappings ==
    {m \in UNION {[S -> (-1)..MaxWeight] : S \in SUBSET DistValues} :
        ExactWeights(m)}

\* The mappings from values to probabilities, valid or not.
ProbabilityMappings ==
    UNION {[S -> 0..(One + 1)] : S \in SUBSET DistValues}

\* One call: the operation and its arguments (those it does not take are
\* left empty).
DistCall(op, table, mapping, values, adjust_cumulative) ==
    [op |-> op, outcomes |-> table, mapping |-> mapping, values |-> values,
     adjust_cumulative |-> adjust_cumulative,
     inclusive_lower_bound |-> 0, exclusive_upper_bound |-> 0, tolerance |-> 0]

InitDist ==
    /\ NoSimulation
    /\ pc = "call"
    /\ \E n \in 0..MaxOutcomes :
          \/ \E t \in OutcomeTables(n) :
                args = DistCall("DiscreteDistribution", t, <<>>, {}, FALSE)
          \/ \E t \in ValidTables(n) : \E values \in SUBSET DistValues :
                \/ \E adjust_cumulative \in BOOLEAN :
                      args = DistCall("subset", t, <<>>, values, adjust_cumulative)
                \/ args = DistCall("subset_preserving", t, <<>>, values, FALSE)
                \/ args = DistCall("drop", t, <<>>, values, FALSE)
          \/ \E t \in ValidTables(n) : \E mapping \in [DistValues -> DistValues] :
                args = DistCall("map_values", t, mapping, {}, FALSE)
          \/ /\ n = 0
             /\ \/ \E mapping \in WeightMappings :
                      args = DistCall("from_weights", <<>>, mapping, {}, FALSE)
                \/ \E mapping \in ProbabilityMappings :
                      args = DistCall("from_probabilities", <<>>, mapping, {}, FALSE)
    /\ result = <<>>
    /\ generator = <<>>

Construct ==
    /\ pc = "call"
    /\ args.op = "DiscreteDistribution"
    /\ Finish(DiscreteDistribution(args.outcomes))

CallFromWeights ==
    /\ pc = "call"
    /\ args.op = "from_weights"
    /\ Finish(from_weights(args.mapping))

CallFromProbabilities ==
    /\ pc = "call"
    /\ args.op = "from_probabilities"
    /\ Finish(from_probabilities(args.mapping))

CallSubset ==
    /\ pc = "call"
    /\ args.op = "subset"
    /\ Finish(subset(args.outcomes, args.values, args.adjust_cumulative))

\* subset(func) with the predicate only
CallSubsetPreserving ==
    /\ pc = "call"
    /\ args.op = "subset_preserving"
    /\ Finish(Returned(subset_preserving(args.outcomes, args.values)))

CallDrop ==
    /\ pc = "call"
    /\ args.op = "drop"
    /\ Finish(drop(args.outcomes, args.values))

CallMapValues ==
    /\ pc = "call"
    /\ args.op = "map_values"
    /\ Finish(map_values(args.outcomes, args.mapping))

\* The bounds and the tolerances certain_in is asked with.
IntervalBounds == 1..(MaxValue + 1)
Tolerances == {0, DEFAULT_CERTAINTY_TOLERANCE}

\* certain_in(lo, hi, tolerance) on the distribution a call has returned.
CallCertainIn ==
    /\ pc = "returned"
    /\ \E lo \in IntervalBounds, hi \in IntervalBounds, tolerance \in Tolerances :
          /\ args' = [DistCall("certain_in", result.value, <<>>, {}, FALSE)
                         EXCEPT !.inclusive_lower_bound = lo,
                                !.exclusive_upper_bound = hi,
                                !.tolerance = tolerance]
          /\ result' = Returned(certain_in(result.value, lo, hi, tolerance))
    /\ pc' = "answered"
    /\ UNCHANGED <<cash_flows, date_range, initial_balances, flow_idx,
                   event_updates, flow_updates, balance_updates, idx, day,
                   prev_day, endpoint_balances, endpoints_changed,
                   balance_records, error, generator>>

NextDist ==
    \/ Construct
    \/ CallFromWeights
    \/ CallFromProbabilities
    \/ CallSubset
    \/ CallSubsetPreserving
    \/ CallDrop
    \/ CallMapValues
    \/ CallCertainIn

\* The constructor and the operations that build distributions
SpecDist == InitDist /\ [][NextDist]_vars

\* ---------------------------------------------------------------------
\* Distributions (SpecDist)
\* ---------------------------------------------------------------------

\* The three properties of the outcomes of a distribution.
StrictlyIncreasingValues(table) ==
    \A i \in 1..(Len(table) - 1) : table[i].value < table[i + 1].value

ConsistentCumulative(table) ==
    \A i \in 1..(Len(table) - 1) :
        table[i].cumulative_probability + table[i + 1].probability
            <= table[i + 1].cumulative_probability

TotalAtMostOne(table) == probability_sum(table, Len(table)) <= One

\* C20: every distribution the constructor, from_weights, from_probabilities,
\* subset, drop or map_values returns has strictly increasing values,
\* cumulative probabilities with cumulative[i] + probability[i+1] <=
\* cumulative[i+1], and probabilities that sum to at most 1; the constructor
\* raises for outcomes that violate any of the three.
C20_DistributionsAreConsistent ==
    /\ pc = "returned" =>
          /\ StrictlyIncreasingValues(result.value)
          /\ ConsistentCumulative(result.value)
          /\ TotalAtMostOne(result.value)
    /\ (pc \in {"returned", "raised"} /\ args.op = "DiscreteDistribution"
           /\ ~(/\ StrictlyIncreasingValues(args.outcomes)
                /\ ConsistentCumulative(args.outcomes)
                /\ TotalAtMostOne(args.outcomes))) =>
          pc = "raised"

\* The constructor has raised for outcomes in ascending order whose
\* probabilities add up to more than 1.
C20_Witness ==
    /\ pc = "raised"
    /\ args.op = "DiscreteDistribution"
    /\ StrictlyIncreasingValues(args.outcomes)
    /\ ~TotalAtMostOne(args.outcomes)

\* map_values has merged two outcomes into one.
C20_WitnessMerged ==
    /\ pc = "returned"
    /\ args.op = "map_values"
    /\ Len(args.outcomes) = 2
    /\ Len(result.value) = 1

\* subset without adjustment has returned an outcome whose cumulative
\* probability still counts the removed one.
C20_WitnessStale ==
    /\ pc = "returned"
    /\ args.op = "subset"
    /\ ~args.adjust_cumulative
    /\ Len(result.value) = 1
    /\ result.value[1].probability < result.value[1].cumulative_probability
    /\ Len(args.outcomes) = 2

\* Whether the call is a subset that keeps the cumulative probabilities:
\* subset(func), or subset(func, adjust_cumulative=False).
IsPreservingSubset(call) ==
    \/ call.op = "subset_preserving"
    \/ call.op = "subset" /\ ~call.adjust_cumulative

\* C21: subset(predicate) returns exactly the outcomes whose value satisfies
\* the predicate, in their original order, each with the probability and the
\* cumulative_probability it had; the original distribution is unchanged.
C21_SubsetKeepsOutcomesUnchanged ==
    [][(pc = "call" /\ IsPreservingSubset(args)) =>
          /\ pc' = "returned"
          /\ result'.value = SelectSeq(args.outcomes,
                                       LAMBDA o : o.value \in args.values)
          /\ args' = args]_vars

\* subset(predicate) has removed the first of two outcomes: the one kept
\* still has the cumulative probability that counts the removed one.
C21_Witness ==
    /\ pc = "returned"
    /\ args.op = "subset_preserving"
    /\ Len(args.outcomes) = 2
    /\ args.values = {args.outcomes[2].value}
    /\ result.value = <<args.outcomes[2]>>
    /\ args.outcomes[2].probability < args.outcomes[2].cumulative_probability

\* The values a call removes: those drop names, or those that
\* subset(func, adjust_cumulative=True) does not keep.
RemovedValues(call) ==
    IF call.op = "drop" THEN call.values ELSE DistValues \ call.values

\* C22: drop(predicate) removes exactly the outcomes whose value satisfies
\* the predicate and keeps the probability of every remaining outcome; each
\* remaining outcome's cumulative_probability is the sum of the remaining
\* probabilities up to and including it.  subset with adjust_cumulative does
\* the same for the outcomes it does not keep.
C22_DropRebuildsCumulative ==
    (pc \in {"returned", "raised"}
        /\ (args.op = "drop" \/ (args.op = "subset" /\ args.adjust_cumulative))) =>
        LET remaining == SelectSeq(args.outcomes,
                                   LAMBDA o : o.value \notin RemovedValues(args))
        IN  /\ pc = "returned"
            /\ Len(result.value) = Len(remaining)
            /\ \A i \in DOMAIN remaining :
                  /\ result.value[i].value = remaining[i].value
                  /\ result.value[i].probability = remaining[i].probability
                  /\ result.value[i].cumulative_probability
                         = probability_sum(remaining, i)

\* drop has removed the first of two outcomes: the second keeps its
\* probability, and its cumulative probability has come down to it.
C22_Witness ==
    /\ pc = "returned"
    /\ args.op = "drop"
    /\ Len(args.outcomes) = 2
    /\ args.values = {args.outcomes[1].value}
    /\ Len(result.value) = 1
    /\ result.value[1].cumulative_probability = args.outcomes[2].probability
    /\ result.value[1].cumulative_probability
           < args.outcomes[2].cumulative_probability

\* C23: whenever certain_in(lo, hi, tolerance) returns true for a
\* distribution the library has produced, the probabilities of its outcomes
\* inside [lo, hi) sum to at least 1 - tolerance; it returns false for the
\* empty distribution and for a distribution with an outcome outside [lo, hi).
C23_CertainInMeansProbabilityOne ==
    (pc = "answered" /\ args.op = "certain_in") =>
        /\ result.value =>
              probability_in(args.outcomes, args.inclusive_lower_bound,
                             args.exclusive_upper_bound)
                  >= One - args.tolerance
        /\ (\/ args.outcomes = <<>>
            \/ \E i \in DOMAIN args.outcomes :
                  ~(/\ args.inclusive_lower_bound <= args.outcomes[i].value
                    /\ args.outcomes[i].value < args.exclusive_upper_bound)) =>
              ~result.value

\* --------------------------------- FloatDistribution arithmetic (SpecFloat)
MaxFloat == 2
MaxScalar == 2

\* The numbers the components are drawn from, and the scalars.
FloatValues == (-MaxFloat)..MaxFloat
Scalars == (-MaxScalar)..MaxScalar

\* The FloatDistributions that exist: those __post_init__ accepts.
FloatDistributions ==
    {d \in [min : FloatValues, max : FloatValues, mean : FloatValues] :
        FloatDistributionValid(d)}

\* One call: the operation, the distribution, and the other operand (a
\* distribution or a number; the one not used is zero).
FloatCall(op, self, other, scalar) ==
    [op |-> op, self |-> self, other |-> other, scalar |-> scalar]

FloatCalls ==
    {FloatCall("neg", a, singular(0), 0) : a \in FloatDistributions}
    \cup {FloatCall("add", c[1], c[2], 0) :
              c \in FloatDistributions \X FloatDistributions}
    \cup {FloatCall(c[1], c[2], singular(0), c[3]) :
              c \in {"add_scalar", "radd", "mul", "rmul"}
                        \X FloatDistributions \X Scalars}

InitFloat ==
    /\ NoSimulation
    /\ pc = "call"
    /\ args \in FloatCalls
    /\ result = <<>>
    /\ generator = <<>>

Negate ==
    /\ pc = "call"
    /\ args.op = "neg"
    /\ Finish(FloatNeg(args.self))

AddDistribution ==
    /\ pc = "call"
    /\ args.op = "add"
    /\ Finish(FloatAdd(args.self, args.other))

AddScalar ==
    /\ pc = "call"
    /\ args.op = "add_scalar"
    /\ Finish(FloatAddScalar(args.self, args.scalar))

ScalarAdd ==
    /\ pc = "call"
    /\ args.op = "radd"
    /\ Finish(FloatRadd(args.self, args.scalar))

MultiplyByScalar ==
    /\ pc = "call"
    /\ args.op = "mul"
    /\ Finish(FloatMul(args.self, args.scalar))

ScalarMultiply ==
    /\ pc = "call"
    /\ args.op = "rmul"
    /\ Finish(FloatRmul(args.self, args.scalar))

NextFloat ==
    \/ Negate
    \/ AddDistribution
    \/ AddScalar
    \/ ScalarAdd
    \/ MultiplyByScalar
    \/ ScalarMultiply

\* The arithmetic operators of FloatDistribution
SpecFloat == InitFloat /\ [][NextFloat]_vars

\* ---------------------------------------------------------------------
\* FloatDistribution arithmetic (SpecFloat)
\* ---------------------------------------------------------------------

\* The lesser and the greater of two numbers.
Lesser(x, y) == IF x <= y THEN x ELSE y
Greater(x, y) == IF x <= y THEN y ELSE x

\* C24: -a, a + b, a + k, k + a, a * k and k * a never raise and return a
\* distribution with min <= mean <= max; the sum is component-wise, the
\* negation is (-max, -mean, -min), and the product has the lesser of
\* min * k and max * k as its min and the greater as its max.
C24_ArithmeticKeepsEnvelope ==
    (pc \in {"returned", "raised"}) =>
        LET a == args.self
            b == args.other
            k == args.scalar
            r == result.value
        IN  /\ pc = "returned"
            /\ r.min <= r.mean /\ r.mean <= r.max
            /\ args.op = "neg" =>
                  r.min = -a.max /\ r.mean = -a.mean /\ r.max = -a.min
            /\ args.op = "add" =>
                  /\ r.min = a.min + b.min
                  /\ r.mean = a.mean + b.mean
                  /\ r.max = a.max + b.max
            /\ args.op \in {"add_scalar", "radd"} =>
                  r.min = a.min + k /\ r.mean = a.mean + k /\ r.max = a.max + k
            /\ args.op \in {"mul", "rmul"} =>
                  /\ r.min = Lesser(a.min * k, a.max * k)
                  /\ r.mean = a.mean * k
                  /\ r.max = Greater(a.min * k, a.max * k)
                  /\ k < 0 => (r.min = a.max * k /\ r.max = a.min * k)

\* A distribution with min < mean < max has been multiplied by a negative
\* number from the left.
C24_Witness ==
    /\ pc = "returned"
    /\ args.op = "rmul"
    /\ args.scalar < 0
    /\ args.self.min < args.self.mean /\ args.self.mean < args.self.max
    /\ result.value.min = args.self.max * args.scalar

\* ----------------------------------------- logs of cash flows (SpecLog)

\* The cash flow whose logs are generated: every schedule of one or two
\* occurrences.
LogFlows ==
    {ScheduledCashFlow("flow", income, account1, FloatDistribution(1, 3, 2), s) :
        s \in GenSchedules}

\* The calls: generate_cash_flow_logs for one cash flow, log_cash_flows for
\* that cash flow and a second one.
LogCashFlows ==
    {<<f>> : f \in LogFlows} \cup {<<f, g>> : f \in LogFlows, g \in SimFlows}

InitLog ==
    /\ cash_flows \in LogCashFlows
    /\ date_range \in Ranges
    /\ args \in [op : {IF Len(cash_flows) = 1 THEN "generate_cash_flow_logs"
                                              ELSE "log_cash_flows"},
                 certainty_tolerance : Tolerances]
    /\ initial_balances = EmptyMap
    /\ balance_updates = <<>>
    /\ Idle
    /\ pc = "call"
    /\ result = <<>>
    /\ generator = <<>>

GenerateCashFlowLogs ==
    /\ pc = "call"
    /\ args.op = "generate_cash_flow_logs"
    /\ Finish(Returned(generate_cash_flow_logs(cash_flows[1], date_range,
                                               args.certainty_tolerance)))

LogCashFlowsCall ==
    /\ pc = "call"
    /\ args.op = "log_cash_flows"
    /\ Finish(Returned(log_cash_flows(cash_flows, date_range,
                                      args.certainty_tolerance)))

NextLog ==
    \/ GenerateCashFlowLogs
    \/ LogCashFlowsCall

\* generate_cash_flow_logs and log_cash_flows
SpecLog == InitLog /\ [][NextLog]_vars

\* ---------------------------------------------------------------------
\* Logs of cash flows (SpecLog)
\* ---------------------------------------------------------------------

\* C25: the entries generate_cash_flow_logs yields, and those log_cash_flows
\* prints for several flows, are in non-decreasing order of
\* (date, bound_type).
C25_LogsSortedByDateAndBound ==
    pc = "returned" =>
        \A k \in 1..(Len(result.value) - 1) :
            \/ result.value[k].date < result.value[k + 1].date
            \/ /\ result.value[k].date = result.value[k + 1].date
               /\ result.value[k].bound_type <= result.value[k + 1].bound_type

\* Two overlapping occurrences of one schedule: both lower bounds are logged
\* before the upper bound of the first occurrence.
C25_Witness ==
    /\ pc = "returned"
    /\ args.op = "generate_cash_flow_logs"
    /\ Len(cash_flows[1].schedule) = 2
    /\ Len(result.value) = 4
    /\ result.value[2].bound_type = -1
    /\ result.value[3].date < result.value[4].date

\* The entries expected for occurrence E: with f the earliest and l the
\* latest outcome inside the range, one combined entry when they are the same
\* outcome, a lower and an upper entry otherwise.
ExpectedLogs(E, cash_flow) ==
    LET f == SetMin(InRangeIdx(E))
        l == SetMax(InRangeIdx(E))
        exact_lower == f = 1
        exact_upper ==
            /\ l = Len(E)
            /\ E[l].cumulative_probability >= One - args.certainty_tolerance
    IN  IF E[f].value = E[l].value
        THEN <<CashFlowLog(E[f].value, 0, exact_lower /\ exact_upper,
                           cash_flow.amount, cash_flow.source, cash_flow.sink)>>
        ELSE <<CashFlowLog(E[f].value, -1, exact_lower,
                           cash_flow.amount, cash_flow.source, cash_flow.sink),
               CashFlowLog(E[l].value, 1, exact_upper,
                           cash_flow.amount, cash_flow.source, cash_flow.sink)>>

\* How many entries of sequence `logs` equal x.
Occurrences(logs, x) == Cardinality({k \in DOMAIN logs : logs[k] = x})

\* How many of the expected entries of the occurrences of the schedule equal x.
ExpectedOccurrences(cash_flow, x) ==
    LET schedule == cash_flow.schedule
    IN  SumSeq([k \in 1..Len(schedule) |->
                   IF InRangeIdx(schedule[k]) = {} THEN 0
                   ELSE Occurrences(ExpectedLogs(schedule[k], cash_flow), x)])

\* C26: generate_cash_flow_logs yields, for each occurrence with an outcome
\* in the range, exactly the expected entries and no other: a combined entry
\* at f when f and l coincide, else a lower entry at f and an upper entry at
\* l; the lower bound is exact iff f is the first outcome overall, the upper
\* bound iff l is the last outcome overall and its cumulative probability is
\* within the tolerance of 1, a combined entry iff both.
C26_OneOrTwoEntriesPerOccurrence ==
    (pc = "returned" /\ args.op = "generate_cash_flow_logs") =>
        /\ \A k \in DOMAIN result.value :
              ExpectedOccurrences(cash_flows[1], result.value[k]) > 0
        /\ \A j \in DOMAIN cash_flows[1].schedule :
              LET E == cash_flows[1].schedule[j]
              IN  InRangeIdx(E) # {} =>
                      \A x \in {ExpectedLogs(E, cash_flows[1])[n] :
                                    n \in DOMAIN ExpectedLogs(E, cash_flows[1])} :
                          Occurrences(result.value, x)
                              = ExpectedOccurrences(cash_flows[1], x)

\* An occurrence whose last outcome lies in the range but whose cumulative
\* probability stays below 1: its lower bound is exact, its upper bound not.
C26_Witness ==
    /\ pc = "returned"
    /\ args.op = "generate_cash_flow_logs"
    /\ Len(cash_flows[1].schedule) = 1
    /\ Len(result.value) = 2
    /\ result.value[1].bound_type = -1 /\ result.value[1].exact_bound
    /\ result.value[2].bound_type = 1 /\ ~result.value[2].exact_bound
    /\ result.value[2].date
           = cash_flows[1].schedule[1][Len(cash_flows[1].schedule[1])].value

\* ---------------------------------------------------------------------
\* Running balances of simulate_cash_balances (Spec)
\* ---------------------------------------------------------------------

CoreFlows == {f \in GenFlows : f.amount = FloatDistribution(1, 3, 2)}

\* The frame of the generator before its first step.
GeneratorFrame ==
    [position |-> 0, occurrence |-> <<>>, seen_cash_flow_events |-> {},
     defer_queue |-> <<>>, created |-> <<>>, yielded |-> <<>>]

InitCore ==
    /\ date_range \in Ranges
    /\ \E f \in CoreFlows :
          cash_flows = iterate_cash_flow_occurrences(
                           iterate_events(f, date_range), date_range)
    /\ args \in [op : {"generate_account_balance_events"},
                 certainty_tolerance : Tolerances]
    /\ initial_balances = EmptyMap
    /\ balance_updates = <<>>
    /\ Idle
    /\ pc = "for"
    /\ result = <<>>
    /\ generator = GeneratorFrame

\* A step of the generator changes its frame and its position only.
GeneratorStep(position, frame) ==
    /\ pc' = position
    /\ generator' = frame
    /\ UNCHANGED <<cash_flows, date_range, initial_balances, flow_idx,
                   event_updates, flow_updates, balance_updates, idx, day,
                   prev_day, endpoint_balances, endpoints_changed,
                   balance_records, error, args, result>>

\* for occurrence in cash_flows: the next occurrence of the input.
NextOccurrence ==
    /\ pc = "for"
    /\ generator.position < Len(cash_flows)
    /\ GeneratorStep("while",
           [generator EXCEPT !.position = @ + 1,
                             !.occurrence = cash_flows[generator.position + 1]])

\* while defer_queue and defer_queue[0].date <= occurrence.date:
\*     yield defer_queue.pop(0)
YieldDeferred ==
    /\ pc = "while"
    /\ generator.defer_queue # <<>>
    /\ Head(generator.defer_queue).date <= generator.occurrence.date
    /\ GeneratorStep("while",
           [generator EXCEPT !.yielded = Append(@, Head(generator.defer_queue)),
                             !.defer_queue = Tail(@)])

\* The rest of the loop body, once the while loop has ended: the lower bound
\* events are yielded if the event is new, the mean and upper bound events are
\* deferred, and the event is recorded as seen.
ProcessOccurrence ==
    /\ pc = "while"
    /\ ~ (/\ generator.defer_queue # <<>>
          /\ Head(generator.defer_queue).date <= generator.occurrence.date)
    /\ LET occurrence == generator.occurrence
           lower == IF occurrence.event \notin generator.seen_cash_flow_events
                    THEN LowerBoundEvents(occurrence) ELSE <<>>
           deferred == DeferredEvents(occurrence, args.certainty_tolerance)
       IN  GeneratorStep("for",
               [generator EXCEPT
                   !.yielded = @ \o lower,
                   !.defer_queue = @ \o deferred,
                   !.created = @ \o lower \o deferred,
                   !.seen_cash_flow_events = @ \cup {occurrence.event}])

\* The input is exhausted: the loop ends and with it the function.
GeneratorReturn ==
    /\ pc = "for"
    /\ generator.position = Len(cash_flows)
    /\ GeneratorStep("returned", generator)

NextCore ==
    \/ NextOccurrence
    \/ YieldDeferred
    \/ ProcessOccurrence
    \/ GeneratorReturn

\* generate_account_balance_events
SpecCore == InitCore /\ [][NextCore]_vars

\* C28: generate_account_balance_events yields every balance event it
\* creates: once the input is exhausted and the generator has returned, no
\* event is left in the defer queue, and as many events were yielded as were
\* created.
C28_EveryCreatedEventIsYielded ==
    pc = "returned" =>
        /\ generator.defer_queue = <<>>
        /\ Len(generator.yielded) = Len(generator.created)

\* =====================================================================
\* The loops of EventSchedule.iterate, step by step (SpecIter)
\* =====================================================================

\* date + timedelta and date + relativedelta raise OverflowError for a result
\* after date.max, and date.replace raises ValueError for a year after 9999:
\* Week.__add__, Week.day and Month.__add__ at the end of the calendar.
WeekAddOverflows(week, weeks) == week.start + 7 * weeks > date_max
WeekDayOverflows(week, on) == week.start + on > date_max
MonthAddOverflows(month, months) == MonthAdd(month, months).year > 9999

\* The last Monday of the calendar: date.max, 9999-12-31, is a Friday.
LastMonday == date_max - weekday(date_max)

\* Validity ranges: those of the schedule calls, the empty range at date.min
\* and a range that starts in the last weeks of the calendar.
IterRanges ==
    SchedRanges \cup {DateRange(date_min, date_min),
                      DateRange(LastMonday - 7, date_max)}

\* Queries with proper lower and upper bounds, in the calendar window and at
\* the end of the calendar.
IterQueries ==
    {r \in SchedQueries \cup MonthlyQueries : FullyBounded(r)}
        \cup {DateRange(LastMonday, date_max - 1),
              DateRange(LastMonday - 30, LastMonday - 1)}

IterSchedules ==
    {w \in {Weekly(on, range, period, exclude) :
               on \in {AnInt(4), ADistribution(MondayOrSunday)},
               range \in IterRanges, period \in 1..MaxPeriod,
               exclude \in SchedExcludes} : WeeklyValid(w)}
    \cup {m \in {Monthly(on, range, period, exclude) :
                    on \in {AnInt(31), ASimpleSchedule(<<EndOfMonth>>)},
                    range \in IterRanges, period \in 1..MaxPeriod,
                    exclude \in MonthlyExcludes} : MonthlyValid(m)}
    \cup UNION {{Daily(range, <<>>), Weekdays(range, <<ExcludeDate(W(8))>>),
                 Weekends(range, <<>>)} : range \in IterRanges}

InitIter ==
    /\ NoSimulation
    /\ pc = "call"
    /\ args \in {[self |-> s, date_range |-> q] :
                    s \in IterSchedules, q \in IterQueries}
    /\ result = <<>>
    /\ generator = <<>>

\* The frames of the three loops.
WeeklyFrame(range, start_week, week, last_week, yielded) ==
    [range |-> range, start_week |-> start_week, week |-> week,
     last_week |-> last_week, yielded |-> yielded]

MonthlyFrame(range, start_month, month, last_month, yielded) ==
    [range |-> range, start_month |-> start_month, month |-> month,
     last_month |-> last_month, yielded |-> yielded]

DateRangeIterFrame(range, d, yielded) ==
    [range |-> range, d |-> d, yielded |-> yielded]

\* A step of the call: its position, its frame and, at its end, its outcome.
IterStep(position, frame, outcome) ==
    /\ pc' = position
    /\ generator' = frame
    /\ result' = outcome
    /\ UNCHANGED <<cash_flows, date_range, initial_balances, flow_idx,
                   event_updates, flow_updates, balance_updates, idx, day,
                   prev_day, endpoint_balances, endpoints_changed,
                   balance_records, error, args>>

\* Weekly.iterate and Monthly.iterate up to the while loop: the intersection,
\* `if date_range:` and the three weeks or months.
EnterPeriodLoop ==
    /\ pc = "call"
    /\ args.self.kind \in {"Weekly", "Monthly"}
    /\ LET range == DateRangeAnd(args.date_range, args.self.range)
       IN  IF ~FullyBounded(range)
           THEN IterStep("raised", generator,
                         Raises("ValueError: Range is not fully bounded"))
           ELSE IF days(range) = 0
           THEN IterStep("returned", generator, Returned(<<>>))
           ELSE IF args.self.kind = "Weekly"
           THEN IterStep("while",
                    WeeklyFrame(range, WeekOf(args.self.range.inclusive_lower_bound),
                                WeekOf(range.inclusive_lower_bound),
                                WeekOf(inclusive_upper_bound(range)), <<>>),
                    result)
           ELSE IterStep("while",
                    MonthlyFrame(range, MonthOf(args.self.range.inclusive_lower_bound),
                                 MonthOf(range.inclusive_lower_bound),
                                 MonthOf(inclusive_upper_bound(range)), <<>>),
                    result)

\* Daily, Weekdays and Weekends iterate date_range & self.range:
\* DateRange.__iter__ starts at the inclusive lower bound.
EnterDateRangeIter ==
    /\ pc = "call"
    /\ args.self.kind \in {"Daily", "Weekdays", "Weekends"}
    /\ LET range == DateRangeAnd(args.date_range, args.self.range)
       IN  IterStep("while",
                    DateRangeIterFrame(range, range.inclusive_lower_bound, <<>>),
                    result)

\* One pass of the while loop of Weekly.iterate.
WeekStep ==
    /\ pc = "while"
    /\ args.self.kind = "Weekly"
    /\ WeekLe(generator.week, generator.last_week)
    /\ LET self == args.self
           week == generator.week
           period_diff == WeekSub(week, generator.start_week) % self.period
           day_distributions ==
               SimpleDayOfWeekScheduleIterate(WeeklyDaySchedule(self), week)
       IN  IF /\ period_diff = 0
              /\ \E k \in DOMAIN day_distributions :
                    \E i \in DOMAIN day_distributions[k] :
                        WeekDayOverflows(week, day_distributions[k][i].value)
           THEN IterStep("raised", generator,
                         Raises("OverflowError: date value out of range"))
           ELSE IF WeekAddOverflows(week, self.period - period_diff)
           THEN IterStep("raised",
                    [generator EXCEPT !.yielded =
                        @ \o (IF period_diff = 0
                              THEN WeeklyYield(self, generator.range, week)
                              ELSE <<>>)],
                    Raises("OverflowError: date value out of range"))
           ELSE IterStep("while",
                    [generator EXCEPT
                        !.yielded = @ \o (IF period_diff = 0
                                          THEN WeeklyYield(self, generator.range, week)
                                          ELSE <<>>),
                        !.week = WeekAdd(week, self.period - period_diff)],
                    result)

\* One pass of the while loop of Monthly.iterate.
MonthStep ==
    /\ pc = "while"
    /\ args.self.kind = "Monthly"
    /\ MonthLe(generator.month, generator.last_month)
    /\ LET self == args.self
           month == generator.month
           period_diff == MonthSub(month, generator.start_month) % self.period
           yielded == generator.yielded
                         \o (IF period_diff = 0
                             THEN MonthlyYield(self, generator.range, month)
                             ELSE <<>>)
       IN  IF MonthAddOverflows(month, self.period - period_diff)
           THEN IterStep("raised", [generator EXCEPT !.yielded = yielded],
                         Raises("ValueError: year 10000 is out of range"))
           ELSE IterStep("while",
                    [generator EXCEPT
                        !.yielded = yielded,
                        !.month = MonthAdd(month, self.period - period_diff)],
                    result)

\* One pass of the while loop of DateRange.__iter__, with the filter of the
\* generator expression that consumes it.
DateStep ==
    /\ pc = "while"
    /\ args.self.kind \in {"Daily", "Weekdays", "Weekends"}
    /\ generator.d < generator.range.exclusive_upper_bound
    /\ LET self == args.self
           occurrence == generator.d
           weekdays == IF self.kind = "Daily" THEN 0..6
                       ELSE IF self.kind = "Weekdays" THEN 0..4 ELSE 5..6
           kept == /\ weekday(occurrence) \in weekdays
                   /\ ~is_occurrence_excluded(occurrence, self.exclude)
       IN  IF occurrence + 1 > date_max
           THEN IterStep("raised", generator,
                         Raises("OverflowError: date value out of range"))
           ELSE IterStep("while",
                    [generator EXCEPT
                        !.yielded = IF kept
                                    THEN Append(@, DiscreteDistribution_singular(occurrence))
                                    ELSE @,
                        !.d = occurrence + 1],
                    result)

\* The condition of the while loop is false: the generator is exhausted.
LoopExit ==
    /\ pc = "while"
    /\ \/ args.self.kind = "Weekly" /\ ~WeekLe(generator.week, generator.last_week)
       \/ args.self.kind = "Monthly" /\ ~MonthLe(generator.month, generator.last_month)
       \/ /\ args.self.kind \in {"Daily", "Weekdays", "Weekends"}
          /\ ~(generator.d < generator.range.exclusive_upper_bound)
    /\ IterStep("returned", generator, Returned(generator.yielded))

NextIter ==
    \/ EnterPeriodLoop
    \/ EnterDateRangeIter
    \/ WeekStep
    \/ MonthStep
    \/ DateStep
    \/ LoopExit

\* tuple(schedule.iterate(date_range)), step by step
SpecIter == InitIter /\ [][NextIter]_vars

\* The cursor of the loop of a frame, as a number: the Monday of the week,
\* the index of the month, or the date.
Cursor(frame, kind) ==
    IF kind = "Weekly" THEN frame.week.start
    ELSE IF kind = "Monthly" THEN frame.month.year * 12 + frame.month.month
    ELSE frame.d

\* The first cursor after the period that contains the last day of the range.
PastLastPeriod(frame, kind) ==
    IF kind = "Weekly" THEN Cursor(frame, kind) > WeekOf(frame.range.exclusive_upper_bound - 1).start
    ELSE IF kind = "Monthly"
    THEN LET last == MonthOf(frame.range.exclusive_upper_bound - 1)
         IN  Cursor(frame, kind) > last.year * 12 + last.month
    ELSE Cursor(frame, kind) >= frame.range.exclusive_upper_bound

\* C29: for a query with proper lower and upper bounds, iterate of Daily,
\* Weekdays, Weekends, Weekly and Monthly terminates with a finite sequence:
\* no step of the call raises, every pass of the loop strictly advances the
\* cursor, and the loop is left once the cursor is past the period of the last
\* day of the intersected range.
C29_IterateTerminates ==
    [][/\ pc' # "raised"
       /\ (pc = "while" /\ pc' = "while") =>
             Cursor(generator', args.self.kind) > Cursor(generator, args.self.kind)
       /\ (pc = "while" /\ pc' = "returned") =>
             PastLastPeriod(generator, args.self.kind)]_vars

\* ---------------------------------------------------------------------
\* Conservation between the endpoints of simulate_cash_balances (Spec)
\* ---------------------------------------------------------------------

\* The update of the sink that mirrors an update of the source: same date, and
\* the opposite envelope component with the opposite sign.
Mirrors(sink_update, source_update) ==
    /\ sink_update.date = source_update.date
    /\ sink_update.delta.max = -source_update.delta.min
    /\ sink_update.delta.mean = -source_update.delta.mean
    /\ sink_update.delta.min = -source_update.delta.max

\* Every flow of the run goes from account1 to account2 or back.
AllFlowsBetweenAccounts ==
    \A k \in DOMAIN cash_flows :
        {cash_flows[k].source, cash_flows[k].sink} = {account1, account2}

\* No day group is open: accumulate_endpoint_balances is between two groups
\* or has returned.
BetweenDayGroups ==
    \/ pc = "groups" /\ day = <<>>
    \/ pc \in {"returned", "closing", "done"}

\* C30: in the stream of every occurrence of every flow, the updates come in
\* pairs: an update of the source followed by an update of the sink with the
\* same date and the opposite envelope component (source min -x with sink
\* max +x, mean -x with mean +x, max -x with min +x).  Hence, when all flows
\* run between account1 and account2, after every complete day group the sums
\* mean + mean, min + max and max + min of the two balances equal their values
\* in the initial balances.
C30_UpdatesMirroredAndSumsConserved ==
    /\ \A f \in DOMAIN event_updates : \A k \in DOMAIN event_updates[f] :
          LET s == event_updates[f][k]
          IN  /\ Len(s) % 2 = 0
              /\ \A i \in DOMAIN s :
                    IF i % 2 = 1
                    THEN /\ s[i].endpoint = cash_flows[f].source
                         /\ Mirrors(s[i + 1], s[i])
                    ELSE s[i].endpoint = cash_flows[f].sink
    /\ (AllFlowsBetweenAccounts /\ BetweenDayGroups) =>
          LET A == BalanceOf(endpoint_balances, account1)
              B == BalanceOf(endpoint_balances, account2)
              A0 == BalanceOf(initial_balances, account1)
              B0 == BalanceOf(initial_balances, account2)
          IN  /\ A.mean + B.mean = A0.mean + B0.mean
              /\ A.min + B.max = A0.min + B0.max
              /\ A.max + B.min = A0.max + B0.min

\* Flows in both directions between the two accounts, a nonzero initial
\* balance, and a completed day group that changed account1.
C30_Witness ==
    /\ pc = "groups" /\ day = <<>>
    /\ idx > Len(balance_updates)
    /\ AllFlowsBetweenAccounts
    /\ \E k \in DOMAIN cash_flows : cash_flows[k].source = account1
    /\ \E k \in DOMAIN cash_flows : cash_flows[k].source = account2
    /\ account1 \in DOMAIN initial_balances
    /\ BalanceOf(endpoint_balances, account1) # initial_balances[account1]

====
